---- MODULE Spec2Model ----
(***************************************************************************)
(* Model of the authentication and token-exchange subsystem of the         *)
(* lenzingpro backend:                                                     *)
(*   - the JWT-Bearer flow (routes/jwt-auth-flow, JWTTokenExchangeService, *)
(*     JWTValidator, jwtAuthMiddleware),                                   *)
(*   - the authorization-code flow with a server-side pendingAuth map      *)
(*     (routes/auth-flow.ts),                                              *)
(*   - the cookie-based OIDC PKCE flow (routes/oidc, OidcService),         *)
(*   - the in-memory SessionStore.                                         *)
(*                                                                         *)
(* Every request handler is an async function running on one event loop:  *)
(* the code between two awaits is one atomic action, and other handlers    *)
(* may run while a handler awaits an upstream answer.  A request occupies  *)
(* a slot r; pc[r] is the await the handler is suspended at, loc[r] holds  *)
(* its local variables, resp is the reply sent last (by any handler).      *)
(* A reply carries, besides what the route sends, the field upstream: the  *)
(* HTTP status of the upstream answer the handler received (0: it made no  *)
(* upstream call); a logout reply carries repeat: the previous reply was a *)
(* logout with the same cookie; a callback reply carries req: the query    *)
(* parameters and cookie of the request it answers.                        *)
(*                                                                         *)
(* Time is counted in whole seconds (now); Date.now() is NowMs.            *)
(***************************************************************************)
EXTENDS Integers, FiniteSets, Sequences, TLC

VARIABLES
    now,          \* wall clock, seconds
    pc,           \* pc[r]: where the handler in slot r is suspended
    loc,          \* loc[r]: local variables of the handler in slot r
    resp,         \* the reply sent last
    sessions,     \* SessionStore.sessions: key -> session record
    sidToUser,    \* SessionStore.sessionIdToUserId: key -> user id
    tokenCache,   \* JWTTokenExchangeService.tokenCache.data: key -> entry
    minted,       \* number of token responses the upstream has issued
    usedSids,     \* session ids drawn from crypto.randomBytes so far
    upN,          \* history: upstream token requests issued so far
    started,      \* history: requests received so far
    pendingAuth,  \* auth-flow.ts pendingAuth: authId -> entry
    usedAuth,     \* authIds drawn so far
    codeCalls,    \* history: code-for-token requests per authId
    codeSess,     \* history: sessions created per authId
    jar           \* browser cookie jar of the cookie-based OIDC flow

vars == << now, pc, loc, resp, sessions, sidToUser, tokenCache, minted,
           usedSids, upN, started,
           pendingAuth, usedAuth, codeCalls, codeSess, jar >>

jwtVars  == << tokenCache >>
codeVars == << pendingAuth, usedAuth, codeCalls, codeSess >>

----------------------------------------------------------------------------
(* Bounds of the model *)

MaxReq  == 2      \* request slots (handlers in flight at once)
MaxOps  == 3      \* requests received
MaxTime == 2      \* seconds the clock may advance
MaxTok  == 2      \* token responses the upstream issues
MaxUp   == 3      \* upstream token requests issued
MaxSid  == 2      \* session identifiers drawn

(* Program constants *)

T0 == 100                 \* clock value at start, seconds since the epoch
ExpiryBufferSec == 60     \* expiryBuffer / "expires_in - 60"
BufferMs == 60000         \* 60 * 1000 in isSessionExpired and the middleware
ClockTolerance == 30      \* clockTolerance passed to jwtVerify

Reqs == 1..MaxReq
None == 0                 \* absent token (undefined) where tokens are numbers

NowMs == now * 1000

----------------------------------------------------------------------------
(* Generic helpers on maps (JavaScript Map / plain object) *)

MapSet(m, k, v) == [x \in DOMAIN m \cup {k} |-> IF x = k THEN v ELSE m[x]]

MapDel(m, k) == [x \in DOMAIN m \ {k} |-> m[x]]

Has(m, k) == k \in DOMAIN m

EmptyMap == << >>

----------------------------------------------------------------------------
(* Assertions (JWT strings).  An assertion string is <<prefix, token>>:    *)
(* prefix is "" or "Bearer ", token names one of the signed tokens below.  *)

Issuer   == "cdc-issuer"       \* JWT_ISSUER
Audience == "client-id"        \* JWT_AUDIENCE

TokenNames == {"good", "expiring", "skew", "edge", "old", "badsig",
               "badiss", "badaud", "nosub", "garbage"}

NoJwt == << "", "" >>          \* request body without a jwt (or jwt: "")

Jwts == {<< "", t >> : t \in TokenNames} \cup {<< "Bearer ", "good" >>}

\* the assertions presented to the login route
LoginJwts == {<< "", "good" >>, << "", "expiring" >>, << "", "badsig" >>}

\* what the signed token named t carries
TokenClaims(t) ==
    LET base == [wellFormed |-> TRUE, sig |-> TRUE, iss |-> Issuer,
                 aud |-> Audience, exp |-> 10000, sub |-> "u1",
                 email |-> "u1@x", name |-> "U One", uid |-> "uid1"]
    IN CASE t = "good"     -> base
         [] t = "expiring" -> [base EXCEPT !.exp = T0 + 1]
         [] t = "skew"     -> [base EXCEPT !.exp = T0 - 1]
         [] t = "edge"     -> [base EXCEPT !.exp = T0 - ClockTolerance + 1]
         [] t = "old"      -> [base EXCEPT !.exp = T0 - ClockTolerance - 1]
         [] t = "badsig"   -> [base EXCEPT !.sig = FALSE]
         [] t = "badiss"   -> [base EXCEPT !.iss = "other-issuer"]
         [] t = "badaud"   -> [base EXCEPT !.aud = "other-client"]
         [] t = "nosub"    -> [base EXCEPT !.sub = ""]
         [] OTHER          -> [base EXCEPT !.wellFormed = FALSE]

\* token.replace(/^Bearer\s+/i, "")
StripBearer(j) == << "", j[2] >>

\* mutant: the signature of the token is not verified
JwtVerifyError_NoSignature(clean, nowSec, keysOk) ==
    LET c == TokenClaims(clean[2])
    IN IF ~c.wellFormed THEN "Invalid Compact JWS"
       ELSE IF ~keysOk THEN "JWKS fetch failed"
       ELSE IF c.iss # Issuer THEN "unexpected iss claim value"
       ELSE IF c.aud # Audience THEN "unexpected aud claim value"
       ELSE IF c.exp <= nowSec - ClockTolerance
            THEN "exp claim timestamp check failed"
       ELSE ""

\* jose jwtVerify(cleanToken, jwks, {issuer, audience, clockTolerance}):
\* the error it throws, or "" when it returns the payload.  keysOk is the
\* outcome of resolving the signing key from the remote key set.
JwtVerifyError(clean, nowSec, keysOk) ==
    LET c == TokenClaims(clean[2])
    IN IF ~c.wellFormed THEN "Invalid Compact JWS"
       ELSE IF ~keysOk THEN "JWKS fetch failed"
       ELSE IF ~c.sig THEN "signature verification failed"
       ELSE IF c.iss # Issuer THEN "unexpected iss claim value"
       ELSE IF c.aud # Audience THEN "unexpected aud claim value"
       ELSE IF c.exp <= nowSec - ClockTolerance
            THEN "exp claim timestamp check failed"
       ELSE ""

\* an absent payload (validation.payload undefined)
NoPayload == [sub |-> "", email |-> "", name |-> "", uid |-> "", exp |-> 0]

Payload(clean) ==
    LET c == TokenClaims(clean[2])
    IN [sub |-> c.sub, email |-> c.email, name |-> c.name, uid |-> c.uid,
        exp |-> c.exp]

\* JWTValidator.validateToken
ValidateToken(j, nowSec, keysOk) ==
    LET clean == StripBearer(j)
        err   == JwtVerifyError(clean, nowSec, keysOk)
        p     == Payload(clean)
    IN IF err # ""      \* caught: error is "JWT validation failed: " + err
         THEN [valid |-> FALSE, payload |-> NoPayload, error |-> err]
       ELSE IF p.sub = ""
         THEN [valid |-> FALSE, payload |-> NoPayload,
               error |-> "Missing 'sub' claim in JWT"]
       ELSE IF p.exp # 0 /\ p.exp < nowSec
         THEN [valid |-> FALSE, payload |-> NoPayload,
               error |-> "JWT token has expired"]
       ELSE [valid |-> TRUE, payload |-> p, error |-> ""]

\* mutant: the route does not look at the validation result
ValidationRejected_Unchecked(v) == FALSE

\* the login route's test  !validation.valid || !validation.payload
ValidationRejected(v) == ~v.valid \/ v.payload = NoPayload

----------------------------------------------------------------------------
(* SessionStore.  Keys: <<k, n>> is the string made of k copies of the      *)
(* prefix "jwt_" followed by the identifier n.                              *)

\* mutant: the session id itself is the key
JwtKey_NoPrefix(cookie) == cookie

JwtKey(cookie) == << cookie[1] + 1, cookie[2] >>     \* `jwt_${sessionId}`

\* data.userInfo?.sub is truthy (JWT-flow records have no userInfo field)
HasUserSub(data) ==
    /\ "userInfo" \in DOMAIN data
    /\ data.userInfo.sub # ""

\* SessionStore.set; a store is [sessions |-> ..., idx |-> ...]
SessionStoreSet(S, id, data) ==
    [sessions |-> MapSet(S.sessions, id, data),
     idx      |-> IF HasUserSub(data) THEN MapSet(S.idx, id, data.userInfo.sub)
                  ELSE S.idx]

\* SessionStore.get: SessionStoreHas tells whether it returns a record
SessionStoreHas(S, id) == Has(S.sessions, id)

SessionStoreGet(S, id) == S.sessions[id]

\* mutant: the record is removed only when it is indexed by user
SessionStoreDelete_OnlyIndexed(S, id) ==
    IF Has(S.sessions, id) /\ HasUserSub(S.sessions[id])
      THEN [sessions |-> MapDel(S.sessions, id), idx |-> MapDel(S.idx, id)]
      ELSE S

\* SessionStore.delete
SessionStoreDelete(S, id) ==
    [sessions |-> MapDel(S.sessions, id),
     idx      |-> IF Has(S.sessions, id) /\ HasUserSub(S.sessions[id])
                    THEN MapDel(S.idx, id) ELSE S.idx]

Store == [sessions |-> sessions, idx |-> sidToUser]

SetStore(S) == sessions' = S.sessions /\ sidToUser' = S.idx

----------------------------------------------------------------------------
(* Upstream token endpoint: answers of the commerce backend *)

ExpiresIns == {1, 60, 61}      \* expires_in values the upstream hands out
UpStatuses == {200, 401, 500}  \* HTTP statuses of the upstream answer

\* mutant: the status of the answer is not checked
ResponseOk_Unchecked(status) == TRUE

ResponseOk(status) == status \in 200..299      \* response.ok

\* the n-th token response; rt is the refresh token it carries (None: none)
TokenResponse(n, e, rt) ==
    [access_token |-> n, token_type |-> "bearer", expires_in |-> e,
     refresh_token |-> rt]

----------------------------------------------------------------------------
(* node-cache (tokenCache): entries [v, t]; t is the absolute expiry in ms, *)
(* 0 meaning "never"; an entry is expired once t < Date.now().  The field   *)
(* at (time of the set) is history only.                                    *)

NodeCacheExpired(entry, nowMs) == entry.t # 0 /\ entry.t < nowMs

\* tokenCache.get(key) returns a value (neither a miss nor expired)
NodeCacheHit(c, key, nowMs) ==
    key \in DOMAIN c /\ ~NodeCacheExpired(c[key], nowMs)

\* tokenCache.get(key) when it returns a value
NodeCacheGet(c, key) == c[key].v

\* data after tokenCache.get(key): an expired entry is deleted by the get
NodeCacheAfterGet(c, key, nowMs) ==
    IF key \in DOMAIN c /\ NodeCacheExpired(c[key], nowMs)
      THEN MapDel(c, key) ELSE c

\* mutant: the value is not stored
NodeCacheSet_Dropped(c, key, value, ttl, nowMs) == c

\* tokenCache.set(key, value, ttl): ttl 0 is "no expiry"
NodeCacheSet(c, key, value, ttl, nowMs) ==
    MapSet(c, key, [v |-> value,
                    t |-> IF ttl = 0 THEN 0 ELSE nowMs + ttl * 1000,
                    at |-> nowMs])

\* periodic check (checkperiod): drops every expired entry
NodeCacheCheckData(c, nowMs) ==
    [k \in {x \in DOMAIN c : ~NodeCacheExpired(c[x], nowMs)} |-> c[k]]

----------------------------------------------------------------------------
(* JWTTokenExchangeService *)

\* getCacheKey: sha256 of the raw assertion string
GetCacheKey(j) == << "sha256", j >>

\* mutant: the comparison is reversed
CachedTokenFresh_Reversed(cachedToken, nowSec) ==
    nowSec + cachedToken.expires_in < nowSec + ExpiryBufferSec

\* line 1002: tokenExpiry > now + expiryBuffer, tokenExpiry and now both
\* taken from the clock at the time of the lookup
CachedTokenFresh(cachedToken, nowSec) ==
    nowSec + cachedToken.expires_in > nowSec + ExpiryBufferSec

\* mutant: the entry is kept for the whole lifetime of the token
CacheTtl_NoBuffer(tokenResponse) == tokenResponse.expires_in

\* line 1014: ttl = tokenResponse.expires_in - 60
CacheTtl(tokenResponse) == tokenResponse.expires_in - ExpiryBufferSec

\* createSessionData
CreateSessionData(j, payload, commerceToken, nowMs) ==
    [userId |-> payload.sub, email |-> payload.email, name |-> payload.name,
     uid |-> payload.uid,
     commerceAccessToken |-> commerceToken.access_token,
     commerceTokenExpiry |-> nowMs + commerceToken.expires_in * 1000,
     commerceRefreshToken |-> commerceToken.refresh_token,
     originalJWT |-> j, createdAt |-> nowMs, lastAccessed |-> nowMs]

\* mutant: the 60-second buffer is left out
IsSessionExpired_NoBuffer(session, nowMs) ==
    session.commerceTokenExpiry < nowMs

\* isSessionExpired
IsSessionExpired(session, nowMs) ==
    session.commerceTokenExpiry < nowMs + BufferMs

\* mutant: the refresh token of the response is taken as it is, absent or
\* not
UpdateSessionWithRefreshedToken_NoFallback(session, commerceToken, nowMs) ==
    [session EXCEPT
       !.commerceAccessToken = commerceToken.access_token,
       !.commerceTokenExpiry = nowMs + commerceToken.expires_in * 1000,
       !.commerceRefreshToken = commerceToken.refresh_token,
       !.lastAccessed = nowMs]

\* mutant: the expiry of the session is not renewed
UpdateSessionWithRefreshedToken_KeepsExpiry(session, commerceToken, nowMs) ==
    [session EXCEPT
       !.commerceAccessToken = commerceToken.access_token,
       !.commerceRefreshToken =
           IF commerceToken.refresh_token # None
             THEN commerceToken.refresh_token ELSE @,
       !.lastAccessed = nowMs]

\* updateSessionWithRefreshedToken
UpdateSessionWithRefreshedToken(session, commerceToken, nowMs) ==
    [session EXCEPT
       !.commerceAccessToken = commerceToken.access_token,
       !.commerceTokenExpiry = nowMs + commerceToken.expires_in * 1000,
       !.commerceRefreshToken =
           IF commerceToken.refresh_token # None
             THEN commerceToken.refresh_token ELSE @,
       !.lastAccessed = nowMs]

----------------------------------------------------------------------------
(* Request slots *)

NoLoc  == [op |-> "none"]

NoCookie == << >>                      \* request without the cookie

\* the fields every reply has, with their values when the route leaves
\* them out
NoResp == [op |-> "none", status |-> 0, error |-> "", message |-> "",
           success |-> FALSE, authenticated |-> FALSE, upstream |-> 0,
           cookie |-> NoCookie, loggedOut |-> {}]

\* loggedOut is history: the cookies of earlier logins that a logout has
\* been called with; every reply but that of a logout carries it on
FullReply(reply) ==
    [f \in DOMAIN NoResp \cup DOMAIN reply |->
        IF f \in DOMAIN reply THEN reply[f]
        ELSE IF f = "loggedOut" THEN resp.loggedOut
        ELSE NoResp[f]]

SidCookie(n) == << 0, n >>             \* cookie value set by a login
CookieVals == {<< k, n >> : k \in 0..1, n \in 1..MaxSid}

\* the jwt_session_id cookie values presented to the JWT routes
JwtCookies == {SidCookie(n) : n \in 1..MaxSid} \cup {NoCookie}

\* a new request is served by the first free slot
FreeSlot(r) ==
    /\ started < MaxOps
    /\ pc[r] = "idle"
    /\ \A q \in Reqs : q < r => pc[q] # "idle"

\* the request is received by slot r
Receive(r) == FreeSlot(r) /\ started' = started + 1

\* the handler in slot r returns: reply sent, slot free again
Reply(r, reply) ==
    /\ resp' = FullReply(reply)
    /\ pc'   = [pc EXCEPT ![r] = "idle"]
    /\ loc'  = [loc EXCEPT ![r] = NoLoc]

\* the handler in slot r suspends at an await
Await(r, label, locals) ==
    /\ pc'   = [pc EXCEPT ![r] = label]
    /\ loc'  = [loc EXCEPT ![r] = locals]
    /\ UNCHANGED resp

UserOf(session) ==
    [userId |-> session.userId, email |-> session.email,
     name |-> session.name, uid |-> session.uid]

----------------------------------------------------------------------------
(* POST /jwt-auth/login *)

\* request received; a missing jwt is answered at once, otherwise the
\* handler awaits jwtValidator.validateToken(jwt)
LoginStart(r, j) ==
    /\ Receive(r)
    /\ IF j = NoJwt
         THEN Reply(r, [op |-> "login", status |-> 400, success |-> FALSE,
                        error |-> "missing_jwt"])
         ELSE Await(r, "login_validate", [op |-> "login", jwt |-> j])
    /\ UNCHANGED << now, sessions, sidToUser, minted, usedSids, upN,
                    jwtVars, codeVars, jar >>

\* lines 702-733: the session is created under a fresh random identifier
LoginCreateSession(r, j, payload, commerceToken, status) ==
    \E n \in (1..MaxSid) \ usedSids :
        LET sessionData == CreateSessionData(j, payload, commerceToken, NowMs)
        IN /\ SetStore(SessionStoreSet(Store, JwtKey(SidCookie(n)), sessionData))
           /\ usedSids' = usedSids \cup {n}
           /\ Reply(r, [op |-> "login", status |-> 200, success |-> TRUE,
                        sessionId |-> SidCookie(n),
                        user |-> UserOf(sessionData),
                        upstream |-> status])

\* validateToken has returned.  On a valid assertion the handler enters
\* exchangeJWTForCommerceToken: a fresh cached token ends the exchange
\* without an upstream call, otherwise the stale entry is deleted and the
\* handler awaits the upstream token request.
LoginValidated(r) ==
    /\ pc[r] = "login_validate"
    /\ \E keysOk \in BOOLEAN :
         LET j   == loc[r].jwt
             v   == ValidateToken(j, now, keysOk)
             key == GetCacheKey(j)
             hit == NodeCacheHit(tokenCache, key, NowMs)
         IN IF ValidationRejected(v)
              THEN /\ Reply(r, [op |-> "login", status |-> 401,
                                success |-> FALSE, error |-> "invalid_jwt",
                                message |-> v.error])
                   /\ UNCHANGED << sessions, sidToUser, usedSids, upN,
                                   jwtVars >>
            ELSE IF hit /\ CachedTokenFresh(NodeCacheGet(tokenCache, key), now)
              THEN /\ LoginCreateSession(r, j, v.payload,
                                         NodeCacheGet(tokenCache, key), 0)
                   /\ UNCHANGED << upN, tokenCache >>
            ELSE /\ upN < MaxUp
                 /\ tokenCache' = MapDel(NodeCacheAfterGet(tokenCache, key, NowMs),
                                         key)
                 /\ Await(r, "login_exchange",
                          [op |-> "login", jwt |-> j, validation |-> v,
                           sentAt |-> NowMs])
                 /\ upN' = upN + 1
                 /\ UNCHANGED << sessions, sidToUser, usedSids >>
    /\ UNCHANGED << now, minted, started, codeVars, jar >>

\* mutant: a failed token request is issued once more
LoginExchanged_Retried(r) ==
    /\ pc[r] = "login_exchange"
    /\ \E status \in UpStatuses :
         LET j == loc[r].jwt
         IN IF ~ResponseOk(status)
              THEN /\ upN < MaxUp
                   /\ upN' = upN + 1
                   /\ UNCHANGED << pc, loc, resp, sessions, sidToUser,
                                   usedSids, minted, tokenCache >>
              ELSE \E e \in ExpiresIns, hasRt \in BOOLEAN :
                     LET tok == TokenResponse(minted + 1, e,
                                    IF hasRt THEN minted + 1 ELSE None)
                     IN /\ minted < MaxTok
                        /\ minted' = minted + 1
                        /\ tokenCache' = NodeCacheSet(tokenCache, GetCacheKey(j),
                                             tok, CacheTtl(tok), NowMs)
                        /\ LoginCreateSession(r, j, loc[r].validation.payload,
                                              tok, status)
                        /\ UNCHANGED upN
    /\ UNCHANGED << now, started, codeVars, jar >>

\* the upstream token endpoint has answered performTokenExchange
LoginExchanged(r) ==
    /\ pc[r] = "login_exchange"
    /\ \E status \in UpStatuses :
         LET j == loc[r].jwt
         IN IF ~ResponseOk(status)
              THEN \* performTokenExchange throws; the route catches it
                   /\ Reply(r, [op |-> "login", status |-> 500,
                                success |-> FALSE,
                                error |-> "token_exchange_failed",
                                upstream |-> status])
                   /\ UNCHANGED << sessions, sidToUser, usedSids, minted,
                                   tokenCache >>
              ELSE \E e \in ExpiresIns, hasRt \in BOOLEAN :
                     LET tok == TokenResponse(minted + 1, e,
                                    IF hasRt THEN minted + 1 ELSE None)
                     IN /\ minted < MaxTok
                        /\ minted' = minted + 1
                        /\ tokenCache' = NodeCacheSet(tokenCache, GetCacheKey(j),
                                             tok, CacheTtl(tok), NowMs)
                        /\ LoginCreateSession(r, j, loc[r].validation.payload,
                                              tok, status)
    /\ UNCHANGED << now, upN, started, codeVars, jar >>

----------------------------------------------------------------------------
(* The upstream answer to a refresh_token request (refreshCommerceToken):   *)
(* Refreshed(tok) holds for every token response tok the upstream may give  *)

RefreshAnswers ==
    {TokenResponse(minted + 1, e, rt) :
        e \in ExpiresIns, rt \in {None, minted + 1}}

----------------------------------------------------------------------------
(* GET /jwt-auth/session *)

CheckSession(r, cookie) ==
    /\ Receive(r)
    /\ IF cookie = NoCookie
         THEN /\ Reply(r, [op |-> "session", status |-> 401,
                           authenticated |-> FALSE,
                           message |-> "No JWT session found"])
              /\ UNCHANGED << sessions, sidToUser, upN >>
       ELSE IF ~SessionStoreHas(Store, JwtKey(cookie))
         THEN /\ Reply(r, [op |-> "session", status |-> 401,
                           authenticated |-> FALSE, cookie |-> cookie,
                           message |-> "Invalid JWT session"])
              /\ UNCHANGED << sessions, sidToUser, upN >>
       ELSE LET session == SessionStoreGet(Store, JwtKey(cookie))
            IN IF IsSessionExpired(session, NowMs)
                 THEN IF session.commerceRefreshToken # None
                        THEN /\ upN < MaxUp
                             /\ upN' = upN + 1
                             /\ Await(r, "session_refresh",
                                      [op |-> "session", cookie |-> cookie,
                                       session |-> session])
                             /\ UNCHANGED << sessions, sidToUser >>
                        ELSE /\ SetStore(SessionStoreDelete(Store, JwtKey(cookie)))
                             /\ Reply(r, [op |-> "session", status |-> 401,
                                          authenticated |-> FALSE,
                                          cookie |-> cookie,
                                          message |-> "Session expired",
                                          upstream |-> 0])
                             /\ UNCHANGED upN
                 ELSE LET touched == [session EXCEPT !.lastAccessed = NowMs]
                      IN /\ SetStore(SessionStoreSet(Store, JwtKey(cookie),
                                                     touched))
                         /\ Reply(r, [op |-> "session", status |-> 200,
                                      authenticated |-> TRUE,
                                      cookie |-> cookie,
                                      user |-> UserOf(touched),
                                      upstream |-> 0])
                         /\ UNCHANGED upN
    /\ UNCHANGED << now, minted, usedSids, jwtVars, codeVars, jar >>

\* the upstream has answered the refresh awaited by GET /jwt-auth/session
CheckSessionRefreshed(r) ==
    /\ pc[r] = "session_refresh"
    /\ LET cookie  == loc[r].cookie
           session == loc[r].session
       IN \E status \in UpStatuses :
            IF ResponseOk(status)
              THEN \E newCommerceToken \in RefreshAnswers :
                     LET updatedSession ==
                           UpdateSessionWithRefreshedToken(session,
                               newCommerceToken, NowMs)
                     IN /\ minted < MaxTok
                        /\ minted' = minted + 1
                        /\ SetStore(SessionStoreSet(Store, JwtKey(cookie),
                                                    updatedSession))
                        /\ Reply(r, [op |-> "session", status |-> 200,
                                     authenticated |-> TRUE,
                                     cookie |-> cookie,
                                     user |-> UserOf(updatedSession),
                                     upstream |-> status])
              ELSE /\ SetStore(SessionStoreDelete(Store, JwtKey(cookie)))
                   /\ Reply(r, [op |-> "session", status |-> 401,
                                authenticated |-> FALSE, cookie |-> cookie,
                                message |-> "Session expired and refresh failed",
                                upstream |-> status])
                   /\ UNCHANGED minted
    /\ UNCHANGED << now, usedSids, upN, started, jwtVars, codeVars, jar >>

----------------------------------------------------------------------------
(* POST /jwt-auth/refresh *)

Refresh(r, cookie) ==
    /\ Receive(r)
    /\ IF cookie = NoCookie
         THEN /\ Reply(r, [op |-> "refresh", status |-> 401,
                           error |-> "no_session"])
              /\ UNCHANGED upN
       ELSE IF \/ ~SessionStoreHas(Store, JwtKey(cookie))
               \/ SessionStoreGet(Store, JwtKey(cookie)).commerceRefreshToken
                    = None
         THEN /\ Reply(r, [op |-> "refresh", status |-> 401,
                           error |-> "invalid_session"])
              /\ UNCHANGED upN
       ELSE /\ upN < MaxUp
            /\ upN' = upN + 1
            /\ Await(r, "refresh_await",
                     [op |-> "refresh", cookie |-> cookie,
                      session |-> SessionStoreGet(Store, JwtKey(cookie))])
    /\ UNCHANGED << now, sessions, sidToUser, minted, usedSids, jwtVars,
                    codeVars, jar >>

\* mutant: the refreshed token is put into the assertion cache
Refreshed_PopulatesCache(r) ==
    /\ pc[r] = "refresh_await"
    /\ LET cookie  == loc[r].cookie
           session == loc[r].session
       IN \E status \in UpStatuses :
            IF ResponseOk(status)
              THEN \E newCommerceToken \in RefreshAnswers :
                     /\ minted < MaxTok
                     /\ minted' = minted + 1
                     /\ tokenCache' =
                           NodeCacheSet(tokenCache,
                               GetCacheKey(session.originalJWT),
                               newCommerceToken, CacheTtl(newCommerceToken),
                               NowMs)
                     /\ SetStore(SessionStoreSet(Store, JwtKey(cookie),
                            UpdateSessionWithRefreshedToken(session,
                                newCommerceToken, NowMs)))
                     /\ Reply(r, [op |-> "refresh", status |-> 200,
                                  success |-> TRUE, cookie |-> cookie])
              ELSE /\ Reply(r, [op |-> "refresh", status |-> 500,
                                error |-> "refresh_failed"])
                   /\ UNCHANGED << sessions, sidToUser, minted, tokenCache >>
    /\ UNCHANGED << now, usedSids, upN, started, codeVars, jar >>

Refreshed(r) ==
    /\ pc[r] = "refresh_await"
    /\ LET cookie  == loc[r].cookie
           session == loc[r].session
       IN \E status \in UpStatuses :
            IF ResponseOk(status)
              THEN \E newCommerceToken \in RefreshAnswers :
                     /\ minted < MaxTok
                     /\ minted' = minted + 1
                     /\ SetStore(SessionStoreSet(Store, JwtKey(cookie),
                            UpdateSessionWithRefreshedToken(session,
                                newCommerceToken, NowMs)))
                     /\ Reply(r, [op |-> "refresh", status |-> 200,
                                  success |-> TRUE, cookie |-> cookie])
              ELSE \* refreshCommerceToken throws; caught by the route
                   /\ Reply(r, [op |-> "refresh", status |-> 500,
                                error |-> "refresh_failed"])
                   /\ UNCHANGED << sessions, sidToUser, minted >>
    /\ UNCHANGED << now, usedSids, upN, started, jwtVars, codeVars, jar >>

----------------------------------------------------------------------------
(* POST /jwt-auth/logout *)

Logout(r, cookie) ==
    /\ Receive(r)
    /\ IF cookie # NoCookie
         THEN SetStore(SessionStoreDelete(Store, JwtKey(cookie)))
         ELSE UNCHANGED << sessions, sidToUser >>
    /\ Reply(r, [op |-> "logout", status |-> 200, success |-> TRUE,
                 cookie |-> cookie,
                 repeat |-> resp.op = "logout" /\ resp.cookie = cookie,
                 loggedOut |->
                     IF cookie # NoCookie /\ cookie[2] \in usedSids
                       THEN resp.loggedOut \cup {cookie}
                       ELSE resp.loggedOut])
    /\ UNCHANGED << now, minted, usedSids, upN, tokenCache, codeVars, jar >>

----------------------------------------------------------------------------
(* jwtAuthMiddleware: preHandler of the protected routes *)

JwtMiddleware(r, cookie) ==
    /\ Receive(r)
    /\ IF cookie = NoCookie
         THEN /\ Reply(r, [op |-> "protected", status |-> 401,
                           error |-> "unauthorized"])
              /\ UNCHANGED << sessions, sidToUser >>
       ELSE IF ~SessionStoreHas(Store, JwtKey(cookie))
         THEN /\ Reply(r, [op |-> "protected", status |-> 401,
                           error |-> "unauthorized", cookie |-> cookie])
              /\ UNCHANGED << sessions, sidToUser >>
       ELSE LET session == SessionStoreGet(Store, JwtKey(cookie))
            IN IF session.commerceTokenExpiry < NowMs + BufferMs
                 THEN /\ SetStore(SessionStoreDelete(Store, JwtKey(cookie)))
                      /\ Reply(r, [op |-> "protected", status |-> 401,
                                   error |-> "session_expired",
                                   cookie |-> cookie])
                 ELSE /\ SetStore(SessionStoreSet(Store, JwtKey(cookie),
                                     [session EXCEPT !.lastAccessed = NowMs]))
                      /\ Reply(r, [op |-> "protected", status |-> 200,
                                   cookie |-> cookie])
    /\ UNCHANGED << now, minted, usedSids, upN, jwtVars, codeVars, jar >>

----------------------------------------------------------------------------
(* Environment of the JWT flow *)

\* the clock advances
Tick ==
    /\ now < T0 + MaxTime
    /\ now' = now + 1
    /\ UNCHANGED << pc, loc, resp, sessions, sidToUser, minted, usedSids,
                    upN, started, jwtVars, codeVars, jar >>

\* node-cache's periodic check removes the expired entries
CacheCheck ==
    /\ \E k \in DOMAIN tokenCache : NodeCacheExpired(tokenCache[k], NowMs)
    /\ tokenCache' = NodeCacheCheckData(tokenCache, NowMs)
    /\ UNCHANGED << now, pc, loc, resp, sessions, sidToUser, minted,
                    usedSids, upN, started, codeVars, jar >>

----------------------------------------------------------------------------
(* The JWT-Bearer flow *)

NoJar == [oidc_state |-> None, oidc_nonce |-> None, oidc_verifier |-> None,
          oidc_return |-> "", session_access |-> None,
          session_refresh |-> None]

Init ==
    /\ now = T0
    /\ pc = [r \in Reqs |-> "idle"]
    /\ loc = [r \in Reqs |-> NoLoc]
    /\ resp = NoResp
    /\ sessions = EmptyMap
    /\ sidToUser = EmptyMap
    /\ tokenCache = EmptyMap
    /\ minted = 0
    /\ usedSids = {}
    /\ upN = 0
    /\ started = 0
    /\ pendingAuth = EmptyMap
    /\ usedAuth = {}
    /\ codeCalls = EmptyMap
    /\ codeSess = EmptyMap
    /\ jar = NoJar

Next ==
    \/ \E r \in Reqs, j \in LoginJwts \cup {NoJwt} : LoginStart(r, j)
    \/ \E r \in Reqs : LoginValidated(r)
    \/ \E r \in Reqs : LoginExchanged(r)
    \/ \E r \in Reqs, c \in JwtCookies : CheckSession(r, c)
    \/ \E r \in Reqs : CheckSessionRefreshed(r)
    \/ \E r \in Reqs, c \in JwtCookies : Refresh(r, c)
    \/ \E r \in Reqs : Refreshed(r)
    \/ \E r \in Reqs, c \in JwtCookies : Logout(r, c)
    \/ \E r \in Reqs, c \in JwtCookies : JwtMiddleware(r, c)
    \/ Tick
    \/ CacheCheck

Spec == Init /\ [][Next]_vars

----------------------------------------------------------------------------
(* The authorization-code flows.                                           *)
(* auth-flow.ts keeps the pending authorizations in the server-side map     *)
(* pendingAuth, keyed by the auth_id cookie; the registerOidcRoutes variant *)
(* keeps state, nonce and verifier in cookies of the browser (jar).         *)
(* Random values (authId, state, nonce, verifier) of one attempt are named  *)
(* by the number of the attempt.                                            *)

MaxAuth    == 2      \* authorization attempts started
MaxPeriods == 3      \* sweep periods the clock may advance
StepsPerPeriod == 3  \* clock steps in one sweep period

PendingMaxAgeMs      == 600000     \* maxAge = 10 * 60 * 1000
PendingSweepPeriodSec == 300       \* setInterval(..., 5 * 60 * 1000)

AuthIds == 1..MaxAuth

\* values of a query parameter or cookie: None when missing or empty
Codes       == {None, 1}
QueryStates == {None} \cup AuthIds
QueryErrors == {"", "access_denied"}
AuthCookies == {None} \cup AuthIds

\* the request of a callback: query parameters and the auth_id cookie
CallbackReq(code, state, error, authId) ==
    [code |-> code, state |-> state, error |-> error, authId |-> authId]

\* number of events recorded for attempt a in a history map
Count(m, a) == IF Has(m, a) THEN m[a] ELSE 0

\* mutant: the error parameter of the query is not looked at
HasProviderError_Ignored(error) == FALSE

\* if (error): the query carries a provider error
HasProviderError(error) == error # ""

\* generateCodeChallenge / generatePkce: base64url(sha256(verifier))
GenerateCodeChallenge(verifier) == << "base64url-sha256", verifier >>

\* CDCAuthService.getAuthorizationUrl: the query of the authorization URL
GetAuthorizationUrl(state, codeChallenge) ==
    [response_type |-> "code", scope |-> "openid profile email uid",
     state |-> state, code_challenge |-> codeChallenge,
     code_challenge_method |-> "S256"]

\* OidcService.buildAuthorizeUrl: the query of the authorization URL
BuildAuthorizeUrl(state, nonce, codeChallenge) ==
    [response_type |-> "code", scope |-> "openid profile email",
     state |-> state, nonce |-> nonce, code_challenge |-> codeChallenge,
     code_challenge_method |-> "S256", response_mode |-> "query"]

\* mutant: the status of the provider's answer is not checked
CdcResponseOk_Unchecked(status) == TRUE

\* resp.ok of the fetches of CDCAuthService
CdcResponseOk(status) == status \in 200..299

\* mutant: the state parameter is not compared
StateMismatch_Ignored(state, storedState) == FALSE

\* state !== authData.state  (state !== storedState in the cookie variant)
StateMismatch(state, storedState) == state # storedState

\* mutant: the entry is left in the map
PendingAuthDelete_Kept(m, authId) == m

\* pendingAuth.delete(authId)
PendingAuthDelete(m, authId) == MapDel(m, authId)

\* identity tokens of a token response: absent, or signed (sig tells whether
\* the signature verifies) with a nonce claim (None: no nonce claim)
NoIdToken == [present |-> FALSE, sig |-> FALSE, nonce |-> None]

IdTokens ==
    {NoIdToken} \cup
    {[present |-> TRUE, sig |-> s, nonce |-> n] :
        s \in BOOLEAN, n \in {None} \cup AuthIds}

\* OIDCTokenResponse / TokenResponse of the authorization_code grant
CodeTokenResponse(n, e, rt, idt) ==
    [access_token |-> n, refresh_token |-> rt, id_token |-> idt,
     expires_in |-> e]

\* the answer of the userinfo endpoint
UserInfo == [sub |-> "u1", email |-> "u1@x"]

\* CDCAuthService.createSessionData
CdcCreateSessionData(tokenResponse, userInfo, nowMs) ==
    [accessToken |-> tokenResponse.access_token,
     refreshToken |-> tokenResponse.refresh_token,
     idToken |-> tokenResponse.id_token,
     expiresAt |-> nowMs + tokenResponse.expires_in * 1000,
     userInfo |-> userInfo]

\* store key of a code-flow session: the session id itself, no prefix
CodeKey(n) == << 0, n >>

----------------------------------------------------------------------------
(* GET /auth/login *)

AuthLogin(r) ==
    /\ Receive(r)
    /\ \E a \in AuthIds \ usedAuth :
         /\ usedAuth' = usedAuth \cup {a}
         /\ pendingAuth' = MapSet(pendingAuth, a,
                              [codeVerifier |-> a, state |-> a,
                               createdAt |-> NowMs])
         /\ Reply(r, [op |-> "auth_login", status |-> 302, authId |-> a,
                      url |-> GetAuthorizationUrl(a,
                                  GenerateCodeChallenge(a))])
    /\ UNCHANGED << now, sessions, sidToUser, minted, usedSids, upN, jwtVars,
                    codeCalls, codeSess, jar >>

----------------------------------------------------------------------------
(* GET /auth/callback *)

\* mutant: a callback rejected for a state mismatch consumes the pending
\* authorization
AuthCallback_ConsumesOnMismatch(r, code, state, error, authId) ==
    LET req == CallbackReq(code, state, error, authId)
        fail(status, err, msg) ==
            /\ Reply(r, [op |-> "auth_callback", status |-> status,
                         error |-> err, message |-> msg, req |-> req])
            /\ UNCHANGED << pendingAuth, codeCalls >>
    IN /\ Receive(r)
       /\ IF HasProviderError(error)
            THEN fail(302, error, "")
          ELSE IF code = None
            THEN fail(400, "invalid_request", "Missing authorization code")
          ELSE IF state = None
            THEN fail(400, "invalid_request", "Missing state parameter")
          ELSE IF authId = None
            THEN fail(400, "invalid_request", "Missing auth session")
          ELSE IF ~Has(pendingAuth, authId)
            THEN fail(400, "invalid_request",
                      "Invalid or expired auth session")
          ELSE IF StateMismatch(state, pendingAuth[authId].state)
            THEN /\ Reply(r, [op |-> "auth_callback", status |-> 400,
                              error |-> "invalid_state",
                              message |-> "State parameter mismatch",
                              req |-> req])
                 /\ pendingAuth' = PendingAuthDelete(pendingAuth, authId)
                 /\ UNCHANGED codeCalls
          ELSE /\ pendingAuth' = PendingAuthDelete(pendingAuth, authId)
               /\ codeCalls' = MapSet(codeCalls, authId,
                                      Count(codeCalls, authId) + 1)
               /\ Await(r, "cb_exchange",
                        [op |-> "auth_callback", req |-> req,
                         codeVerifier |-> pendingAuth[authId].codeVerifier])
       /\ UNCHANGED << now, sessions, sidToUser, minted, usedSids, upN,
                       jwtVars, usedAuth, codeSess, jar >>

\* lines 88-147: the checks, the consumption of the pending entry and the
\* request to the token endpoint
AuthCallback(r, code, state, error, authId) ==
    LET req == CallbackReq(code, state, error, authId)
        fail(status, err, msg) ==
            /\ Reply(r, [op |-> "auth_callback", status |-> status,
                         error |-> err, message |-> msg, req |-> req])
            /\ UNCHANGED << pendingAuth, codeCalls >>
    IN /\ Receive(r)
       /\ IF HasProviderError(error)
            THEN fail(302, error, "")
          ELSE IF code = None
            THEN fail(400, "invalid_request", "Missing authorization code")
          ELSE IF state = None
            THEN fail(400, "invalid_request", "Missing state parameter")
          ELSE IF authId = None
            THEN fail(400, "invalid_request", "Missing auth session")
          ELSE IF ~Has(pendingAuth, authId)
            THEN fail(400, "invalid_request",
                      "Invalid or expired auth session")
          ELSE IF StateMismatch(state, pendingAuth[authId].state)
            THEN fail(400, "invalid_state", "State parameter mismatch")
          ELSE /\ pendingAuth' = PendingAuthDelete(pendingAuth, authId)
               /\ codeCalls' = MapSet(codeCalls, authId,
                                      Count(codeCalls, authId) + 1)
               /\ Await(r, "cb_exchange",
                        [op |-> "auth_callback", req |-> req,
                         codeVerifier |-> pendingAuth[authId].codeVerifier])
       /\ UNCHANGED << now, sessions, sidToUser, minted, usedSids, upN,
                       jwtVars, usedAuth, codeSess, jar >>

\* mutant: a failed exchange puts the pending authorization back
AuthCallbackExchanged_RestoresPending(r) ==
    /\ pc[r] = "cb_exchange"
    /\ \E status \in UpStatuses :
         IF ~CdcResponseOk(status)
           THEN \* exchangeCodeForTokens throws; caught at line 168
                /\ Reply(r, [op |-> "auth_callback", status |-> 302,
                             error |-> "callback_failed",
                             upstream |-> status, req |-> loc[r].req])
                /\ pendingAuth' = MapSet(pendingAuth, loc[r].req.authId,
                                         [codeVerifier |-> loc[r].codeVerifier,
                                          state |-> loc[r].req.state,
                                          createdAt |-> NowMs])
                /\ UNCHANGED minted
           ELSE \E e \in ExpiresIns, hasRt \in BOOLEAN, idt \in IdTokens :
                  /\ minted < MaxTok
                  /\ minted' = minted + 1
                  /\ UNCHANGED pendingAuth
                  /\ Await(r, "cb_userinfo",
                           [op |-> "auth_callback", req |-> loc[r].req,
                            exchangeStatus |-> status,
                            tokenResponse |->
                               CodeTokenResponse(minted + 1, e,
                                   IF hasRt THEN minted + 1 ELSE None, idt)])
    /\ UNCHANGED << now, sessions, sidToUser, usedSids, upN, started,
                    jwtVars, usedAuth, codeCalls, codeSess, jar >>

\* the token endpoint has answered exchangeCodeForTokens; on success the
\* handler awaits getUserInfo
AuthCallbackExchanged(r) ==
    /\ pc[r] = "cb_exchange"
    /\ \E status \in UpStatuses :
         IF ~CdcResponseOk(status)
           THEN \* exchangeCodeForTokens throws; caught at line 168
                /\ Reply(r, [op |-> "auth_callback", status |-> 302,
                             error |-> "callback_failed",
                             upstream |-> status, req |-> loc[r].req])
                /\ UNCHANGED minted
           ELSE \E e \in ExpiresIns, hasRt \in BOOLEAN, idt \in IdTokens :
                  /\ minted < MaxTok
                  /\ minted' = minted + 1
                  /\ Await(r, "cb_userinfo",
                           [op |-> "auth_callback", req |-> loc[r].req,
                            exchangeStatus |-> status,
                            tokenResponse |->
                               CodeTokenResponse(minted + 1, e,
                                   IF hasRt THEN minted + 1 ELSE None, idt)])
    /\ UNCHANGED << now, sessions, sidToUser, usedSids, upN, started,
                    jwtVars, codeVars, jar >>

\* the userinfo endpoint has answered; lines 152-167 create the session
AuthCallbackUserInfo(r) ==
    /\ pc[r] = "cb_userinfo"
    /\ \E status \in UpStatuses :
         IF ~CdcResponseOk(status)
           THEN /\ Reply(r, [op |-> "auth_callback", status |-> 302,
                             error |-> "callback_failed",
                             upstream |-> status, req |-> loc[r].req])
                /\ UNCHANGED << sessions, sidToUser, usedSids, codeSess >>
           ELSE \E n \in {x \in 1..MaxSid : ~Has(sessions, CodeKey(x))} :
                  LET sessionData ==
                        CdcCreateSessionData(loc[r].tokenResponse, UserInfo,
                                             NowMs)
                      a == loc[r].req.authId
                  IN /\ UNCHANGED usedSids
                     /\ SetStore(SessionStoreSet(Store, CodeKey(n),
                                                 sessionData))
                     /\ codeSess' = MapSet(codeSess, a, Count(codeSess, a) + 1)
                     /\ Reply(r, [op |-> "auth_callback", status |-> 302,
                                  success |-> TRUE, sessionId |-> CodeKey(n),
                                  upstream |-> status, req |-> loc[r].req])
    /\ UNCHANGED << now, minted, upN, started, jwtVars, pendingAuth,
                    usedAuth, codeCalls, jar >>

----------------------------------------------------------------------------
(* The sweep of pendingAuth and the clock of the authorization-code flows *)

\* mutant: an entry whose age equals the TTL counts as expired
PendingExpired_Inclusive(data, nowMs) ==
    nowMs - data.createdAt >= PendingMaxAgeMs

\* now - data.createdAt > maxAge
PendingExpired(data, nowMs) == nowMs - data.createdAt > PendingMaxAgeMs

\* the callback of the timer: every entry older than maxAge is deleted
PendingSweep(pending, nowMs) ==
    [a \in {x \in DOMAIN pending : ~PendingExpired(pending[x], nowMs)}
       |-> pending[a]]

\* this.delete(sessionId) for each of the ids
RECURSIVE DeleteEach(_, _)
DeleteEach(S, ids) ==
    IF ids = {} THEN S
    ELSE LET id == CHOOSE x \in ids : TRUE
         IN DeleteEach(SessionStoreDelete(S, id), ids \ {id})

\* data.expiresAt <= now; a record without expiresAt (a JWT session)
\* compares as undefined <= now, which is false
ExpiresAtPassed(data, nowMs) ==
    /\ "expiresAt" \in DOMAIN data
    /\ data.expiresAt <= nowMs

\* SessionStore.cleanExpired: the store afterwards and the count returned
CleanExpired(S, nowMs) ==
    LET hit == {id \in DOMAIN S.sessions :
                   ExpiresAtPassed(S.sessions[id], nowMs)}
    IN [store |-> DeleteEach(S, hit), cleaned |-> Cardinality(hit)]

\* setInterval(..., 15 * 60 * 1000): the period of the session sweep
SessionSweepPeriodSec == 900

\* the timer of the session sweep fires once per period
SessionSweepDue(t) == (t - T0) % SessionSweepPeriodSec = 0

\* the clock advances in steps of a fraction of the sweep period
ClockStepSec == PendingSweepPeriodSec \div StepsPerPeriod

\* setInterval: the timer registered at start-up fires once per period
SweepDue(t) == (t - T0) % PendingSweepPeriodSec = 0

\* the clock advances by one step; each sweep runs when its period is over
TickPeriod ==
    /\ now < T0 + MaxPeriods * PendingSweepPeriodSec
    /\ now' = now + ClockStepSec
    /\ pendingAuth' = IF SweepDue(now')
                        THEN PendingSweep(pendingAuth, now' * 1000)
                        ELSE pendingAuth
    /\ IF SessionSweepDue(now')
         THEN SetStore(CleanExpired(Store, now' * 1000).store)
         ELSE UNCHANGED << sessions, sidToUser >>
    /\ UNCHANGED << pc, loc, resp, minted, usedSids,
                    upN, started, jwtVars, usedAuth, codeCalls, codeSess,
                    jar >>

----------------------------------------------------------------------------
(* registerOidcRoutes: POST /oidc/authorize and the callback, with state,  *)
(* nonce and verifier kept in cookies                                       *)

ClearTransient(j) ==
    [j EXCEPT !.oidc_state = None, !.oidc_nonce = None,
              !.oidc_verifier = None, !.oidc_return = ""]

OidcAuthorize(r) ==
    /\ Receive(r)
    /\ \E a \in AuthIds \ usedAuth :
         /\ usedAuth' = usedAuth \cup {a}
         /\ jar' = [jar EXCEPT !.oidc_state = a, !.oidc_nonce = a,
                               !.oidc_verifier = a, !.oidc_return = "/"]
         /\ Reply(r, [op |-> "oidc_authorize", status |-> 200,
                      url |-> BuildAuthorizeUrl(a, a,
                                  GenerateCodeChallenge(a))])
    /\ UNCHANGED << now, sessions, sidToUser, minted, usedSids, upN, jwtVars,
                    pendingAuth, codeCalls, codeSess >>

\* the catch block and the early returns: transient cookies cleared,
\* redirect to the login page with the error
OidcFail(r, err, status, req) ==
    /\ jar' = ClearTransient(jar)
    /\ Reply(r, [op |-> "oidc_callback", status |-> 302, error |-> err,
                 upstream |-> status, req |-> req])

\* the callback is received with the cookies of the browser
OidcCallback(r, code, state, error) ==
    LET req == CallbackReq(code, state, error, jar.oidc_state)
        storedState == jar.oidc_state
        verifier    == jar.oidc_verifier
        nonce       == jar.oidc_nonce
    IN /\ Receive(r)
       /\ IF HasProviderError(error)
            THEN OidcFail(r, error, 0, req)
          ELSE IF \/ code = None \/ state = None
                  \/ StateMismatch(state, storedState)
                  \/ verifier = None \/ nonce = None
            THEN OidcFail(r, "state_mismatch", 0, req)
          ELSE /\ Await(r, "oidc_exchange",
                        [op |-> "oidc_callback", req |-> req,
                         verifier |-> verifier, nonce |-> nonce])
               /\ UNCHANGED jar
       /\ UNCHANGED << now, sessions, sidToUser, minted, usedSids, upN,
                       jwtVars, codeVars >>

\* lines 300-323: session cookies set, transient cookies cleared, redirect
OidcSetSession(r, tokens, req) ==
    /\ jar' = [ClearTransient(jar) EXCEPT
                 !.session_access = tokens.access_token,
                 !.session_refresh =
                     IF tokens.refresh_token # None
                       THEN tokens.refresh_token ELSE @]
    /\ Reply(r, [op |-> "oidc_callback", status |-> 302, success |-> TRUE,
                 upstream |-> 200, req |-> req])

\* the token endpoint has answered exchangeCode
OidcExchanged(r) ==
    /\ pc[r] = "oidc_exchange"
    /\ \E status \in UpStatuses :
         IF ~ResponseOk(status)
           THEN /\ OidcFail(r, "exchange_failed", status, loc[r].req)
                /\ UNCHANGED minted
           ELSE \E e \in ExpiresIns, hasRt \in BOOLEAN, idt \in IdTokens :
                  LET tokens == CodeTokenResponse(minted + 1, e,
                                    IF hasRt THEN minted + 1 ELSE None, idt)
                  IN /\ minted < MaxTok
                     /\ minted' = minted + 1
                     /\ IF tokens.id_token.present
                          THEN /\ Await(r, "oidc_verify",
                                        [op |-> "oidc_callback",
                                         req |-> loc[r].req,
                                         nonce |-> loc[r].nonce,
                                         tokens |-> tokens])
                               /\ UNCHANGED jar
                          ELSE OidcSetSession(r, tokens, loc[r].req)
    /\ UNCHANGED << now, sessions, sidToUser, usedSids, upN, started,
                    jwtVars, codeVars >>

\* OidcService.verifyIdToken: the error it throws, "" when it returns
VerifyIdTokenError(idToken, expectedNonce, keysOk) ==
    IF ~keysOk \/ ~idToken.sig THEN "signature verification failed"
    ELSE IF idToken.nonce # expectedNonce THEN "Nonce mismatch"
    ELSE ""

\* verifyIdToken has settled
OidcVerified(r) ==
    /\ pc[r] = "oidc_verify"
    /\ \E keysOk \in BOOLEAN :
         LET err == VerifyIdTokenError(loc[r].tokens.id_token, loc[r].nonce,
                                       keysOk)
         IN IF err # ""
              THEN OidcFail(r, err, 200, loc[r].req)
              ELSE OidcSetSession(r, loc[r].tokens, loc[r].req)
    /\ UNCHANGED << now, sessions, sidToUser, minted, usedSids, upN, started,
                    jwtVars, codeVars >>

----------------------------------------------------------------------------
(* The authorization-code flows as a specification *)

NextCode ==
    \/ \E r \in Reqs : AuthLogin(r)
    \/ \E r \in Reqs, code \in Codes, state \in QueryStates,
          error \in QueryErrors, authId \in AuthCookies :
          AuthCallback(r, code, state, error, authId)
    \/ \E r \in Reqs : AuthCallbackExchanged(r)
    \/ \E r \in Reqs : AuthCallbackUserInfo(r)
    \/ TickPeriod
    \/ \E r \in Reqs : OidcAuthorize(r)
    \/ \E r \in Reqs, code \in Codes, state \in QueryStates,
          error \in QueryErrors : OidcCallback(r, code, state, error)
    \/ \E r \in Reqs : OidcExchanged(r)
    \/ \E r \in Reqs : OidcVerified(r)

SpecCode == Init /\ [][NextCode]_vars

----------------------------------------------------------------------------
(* Steps of the JWT flow, recognised from the two states of a step *)

\* slot r replies in this step
Replies(r) == pc[r] # "idle" /\ pc'[r] = "idle"

\* login in slot r issues the upstream exchange request in this step
LoginCallsUpstream(r) == pc[r] = "login_validate" /\ pc'[r] = "login_exchange"

\* login in slot r ends with the invalid-assertion reply in this step
LoginRejects(r) ==
    pc[r] = "login_validate" /\ Replies(r) /\ resp'.error = "invalid_jwt"

\* exchange in slot r returns a token without an upstream call in this step
LoginCacheHit(r) ==
    pc[r] = "login_validate" /\ Replies(r) /\ resp'.status = 200

\* the validator can return valid for assertion j at the current time
CanValidate(j) == \E keysOk \in BOOLEAN : ValidateToken(j, now, keysOk).valid

SessionKeys == DOMAIN sessions

\* end of the validity of a cache entry: time of the set + (expires_in - 60) s
ComputedExpiryMs(entry) ==
    entry.at + (entry.v.expires_in - ExpiryBufferSec) * 1000

----------------------------------------------------------------------------
(* C3: in the JWT-Bearer login an upstream exchange request for an         *)
(* assertion is issued only in a step in which the validator returned      *)
(* valid for that assertion; when the validator returns invalid the login  *)
(* replies invalid_jwt (401), issues no upstream request, leaves the token  *)
(* cache unchanged and creates no session.                                  *)
C3_ExchangeOnlyAfterValidation ==
    /\ [](\A r \in Reqs :
            pc[r] = "login_exchange" =>
               /\ loc[r].validation.valid
               /\ loc[r].validation.payload = Payload(StripBearer(loc[r].jwt)))
    /\ [][\A r \in Reqs :
            /\ LoginCallsUpstream(r) =>
                 CanValidate(loc[r].jwt) /\ loc'[r].jwt = loc[r].jwt
            /\ (pc[r] = "login_validate" /\ pc'[r] # "login_validate"
                  /\ ~CanValidate(loc[r].jwt)) =>
                 /\ LoginRejects(r)
                 /\ resp'.status = 401 /\ ~resp'.success
            /\ LoginRejects(r) =>
                 /\ upN' = upN
                 /\ tokenCache' = tokenCache
                 /\ sessions' = sessions /\ sidToUser' = sidToUser]_vars

\* an invalid assertion has been rejected after another one was exchanged
C3_Witness ==
    /\ resp.op = "login" /\ resp.error = "invalid_jwt"
    /\ upN > 0

----------------------------------------------------------------------------
----------------------------------------------------------------------------
(* C6: a second exchange of an assertion made within the TTL window of the *)
(* first result (expires_in - 60 s after it was obtained, expires_in > 60)  *)
(* issues no upstream request, so the two calls issue exactly one, and the  *)
(* second call returns the token obtained by the first.                     *)
C6_SecondExchangeHitsCache ==
    [][\A r \in Reqs :
         LET key == GetCacheKey(loc[r].jwt)
         IN (/\ pc[r] = "login_validate" /\ pc'[r] # "login_validate"
             /\ ~LoginRejects(r)
             /\ key \in DOMAIN tokenCache
             /\ tokenCache[key].v.expires_in > ExpiryBufferSec
             /\ NowMs <= ComputedExpiryMs(tokenCache[key]))
            => /\ LoginCacheHit(r)
               /\ upN' = upN /\ upN >= 1
               /\ tokenCache' = tokenCache
               /\ sessions'[JwtKey(resp'.sessionId)].commerceAccessToken
                    = tokenCache[key].v.access_token]_vars

\* two logins with one assertion, one upstream request, two sessions that
\* carry the same commerce token
C6_Witness ==
    /\ resp.op = "login" /\ resp.status = 200 /\ resp.upstream = 0
    /\ upN = 1
    /\ \E k1, k2 \in SessionKeys :
          /\ k1 # k2
          /\ sessions[k1].commerceAccessToken = sessions[k2].commerceAccessToken

----------------------------------------------------------------------------
\* the upstream answers the exchange awaited by slot r with a non-2xx
\* status in this step
ExchangeAnsweredNon2xx(r) ==
    /\ pc[r] = "login_exchange" /\ Replies(r)
    /\ resp'.upstream \notin 200..299

(* C7 as claimed: when the upstream answers an exchange with a non-2xx     *)
(* status, exchange fails with an error carrying that status, afterwards   *)
(* the cache holds no entry for that assertion, and the login driven by    *)
(* that exchange creates no session.                                       *)
C7_FailedExchangeNotCached_Claimed ==
    [][\A r \in Reqs :
         ExchangeAnsweredNon2xx(r) =>
            /\ resp'.error = "token_exchange_failed"
            /\ GetCacheKey(loc[r].jwt) \notin DOMAIN tokenCache'
            /\ sessions' = sessions]_vars

(* C7 as amended: when the upstream answers an exchange with a non-2xx     *)
(* status, exchange fails with an error carrying that status and writes    *)
(* nothing to the cache: the cache is left as it was, so it holds an entry *)
(* for that assertion only if another exchange of the same assertion has   *)
(* stored one while this one was awaiting the upstream; the login driven   *)
(* by the failed exchange creates no session.                               *)
C7_FailedExchangeNotCached ==
    [][\A r \in Reqs :
         ExchangeAnsweredNon2xx(r) =>
            /\ resp'.op = "login" /\ ~resp'.success
            /\ resp'.status = 500 /\ resp'.error = "token_exchange_failed"
            /\ resp'.upstream \in UpStatuses
            /\ tokenCache' = tokenCache
            /\ Has(tokenCache, GetCacheKey(loc[r].jwt)) =>
                  tokenCache[GetCacheKey(loc[r].jwt)].at >= loc[r].sentAt
            /\ sessions' = sessions /\ sidToUser' = sidToUser
            /\ usedSids' = usedSids]_vars

\* a login has failed on a non-2xx upstream answer, nothing is cached and
\* no session exists
C7_Witness ==
    /\ resp.op = "login" /\ resp.error = "token_exchange_failed"
    /\ resp.upstream = 401
    /\ tokenCache = EmptyMap
    /\ sessions = EmptyMap

----------------------------------------------------------------------------
\* GET /jwt-auth/session in slot r finds the session expired without a
\* refresh token in this step
CheckSessionNoRefreshToken(r, c) ==
    /\ FreeSlot(r) /\ resp'.op = "session" /\ started' = started + 1
    /\ pc' = pc
    /\ Has(sessions, JwtKey(c))
    /\ resp'.cookie = c
    /\ IsSessionExpired(sessions[JwtKey(c)], NowMs)
    /\ sessions[JwtKey(c)].commerceRefreshToken = None

\* the refresh awaited by GET /jwt-auth/session in slot r fails in this step
CheckSessionRefreshFails(r) ==
    /\ pc[r] = "session_refresh" /\ Replies(r)
    /\ resp'.upstream \notin 200..299

\* the last reply is "unauthenticated" from a checkSession that found the
\* session expired
ExpiredReply ==
    /\ resp.op = "session" /\ ~resp.authenticated
    /\ resp.message \in {"Session expired",
                         "Session expired and refresh failed"}

(* C8: checkSession on a session whose commerce token is expired deletes   *)
(* the session and reports unauthenticated when the session has no refresh *)
(* token or the refresh call fails; after that outcome the session id      *)
(* stays absent from the store (checkSession never re-inserts it).         *)
C8_ExpiredSessionNeverResurrected ==
    [][/\ \A r \in Reqs :
            /\ \A c \in CookieVals :
                  CheckSessionNoRefreshToken(r, c) =>
                     /\ ~resp'.authenticated /\ resp'.status = 401
                     /\ ~Has(sessions', JwtKey(c))
            /\ CheckSessionRefreshFails(r) =>
                  /\ ~resp'.authenticated /\ resp'.status = 401
                  /\ ~Has(sessions', JwtKey(loc[r].cookie))
       /\ ExpiredReply => ~Has(sessions', JwtKey(resp.cookie))]_vars

----------------------------------------------------------------------------
\* the refresh awaited by GET /jwt-auth/session in slot r succeeds in this
\* step
CheckSessionRefreshSucceeds(r) ==
    /\ pc[r] = "session_refresh" /\ Replies(r)
    /\ resp'.upstream \in 200..299

(* C9: checkSession on an expired session that holds a refresh token, when *)
(* the upstream refresh succeeds, reports authenticated=true and leaves    *)
(* the session in the store under the same id with the new access token    *)
(* and an expiry later than the current time.                              *)
C9_RefreshKeepsSession ==
    [][\A r \in Reqs :
         CheckSessionRefreshSucceeds(r) =>
            LET key == JwtKey(loc[r].cookie)
            IN /\ resp'.op = "session" /\ resp'.authenticated
               /\ resp'.status = 200
               /\ Has(sessions', key)
               /\ sessions'[key].commerceAccessToken = minted'
               /\ minted' = minted + 1
               /\ sessions'[key].commerceAccessToken
                    # loc[r].session.commerceAccessToken
               /\ sessions'[key].commerceTokenExpiry > NowMs
               /\ sessions'[key].userId = loc[r].session.userId]_vars

\* a session whose expiry had passed has been refreshed by checkSession
C9_Witness ==
    /\ resp.op = "session" /\ resp.authenticated /\ resp.upstream = 200
    /\ Has(sessions, JwtKey(resp.cookie))
    /\ sessions[JwtKey(resp.cookie)].commerceTokenExpiry > NowMs
    /\ sessions[JwtKey(resp.cookie)].createdAt + 1000 < NowMs
    /\ sessions[JwtKey(resp.cookie)].lastAccessed = NowMs
    /\ sessions[JwtKey(resp.cookie)].commerceAccessToken = 2

----------------------------------------------------------------------------
\* POST /jwt-auth/logout with cookie c is served in this step
LogoutStep(c) ==
    /\ started' = started + 1
    /\ resp'.op = "logout" /\ resp'.cookie = c

(* C10: logout is idempotent: it never yields an error; the first call     *)
(* removes the session of the cookie if present and nothing else; a second *)
(* call with the same cookie, and a call for an id without a session,      *)
(* leave the store unchanged.                                               *)
C10_LogoutIdempotent ==
    /\ [][\A c \in JwtCookies :
            LogoutStep(c) =>
               /\ resp'.status = 200 /\ resp'.success /\ resp'.error = ""
               /\ c # NoCookie =>
                    /\ DOMAIN sessions' = DOMAIN sessions \ {JwtKey(c)}
                    /\ \A k \in DOMAIN sessions' : sessions'[k] = sessions[k]
               /\ (c = NoCookie \/ ~Has(sessions, JwtKey(c))) =>
                    sessions' = sessions /\ sidToUser' = sidToUser
               /\ (resp.op = "logout" /\ resp.cookie = c) =>
                    sessions' = sessions /\ sidToUser' = sidToUser]_vars
    /\ [](resp.op = "logout" /\ resp.cookie # NoCookie
            => ~Has(sessions, JwtKey(resp.cookie)))

\* logout has been called twice in a row with the cookie of a session that
\* a login had created
C10_Witness ==
    /\ resp.op = "logout" /\ resp.repeat
    /\ resp.cookie # NoCookie
    /\ resp.cookie[2] \in usedSids

----------------------------------------------------------------------------
(* Steps of the authorization-code flows *)

\* GET /auth/callback is received by slot r in this step
AuthCallbackReceived(r) ==
    /\ FreeSlot(r) /\ started' = started + 1
    /\ \/ pc' = pc /\ resp'.op = "auth_callback"
       \/ pc'[r] = "cb_exchange"

\* the cookie-variant callback is received by slot r in this step
OidcCallbackReceived(r) ==
    /\ FreeSlot(r) /\ started' = started + 1
    /\ \/ pc' = pc /\ resp'.op = "oidc_callback"
       \/ pc'[r] = "oidc_exchange"

\* the request of the callback received by slot r in this step
ReceivedReq(r) == IF pc' = pc THEN resp'.req ELSE loc'[r].req

\* the request names a pending authorization but not its state
AuthStateDiffers(req) ==
    /\ Has(pendingAuth, req.authId)
    /\ req.state # pendingAuth[req.authId].state

\* the browser holds an oidc_state cookie and the request names another state
OidcStateDiffers(req) ==
    /\ jar.oidc_state # None
    /\ req.authId = jar.oidc_state
    /\ req.state # jar.oidc_state

----------------------------------------------------------------------------
\* a callback has been accepted for attempt a: its entry has been consumed
\* by a callback that went on to the token endpoint
Accepted(a) == Count(codeCalls, a) >= 1

----------------------------------------------------------------------------
\* the callback in slot r completes in this step with a token response
\* whose identity token carries a nonce other than the nonce stored for the
\* attempt (/auth/login stores none)
AuthCallbackNonceDiffers(r) ==
    /\ pc[r] = "cb_userinfo" /\ Replies(r)
    /\ loc[r].tokenResponse.id_token.present
    /\ loc[r].tokenResponse.id_token.nonce # None

OidcCallbackNonceDiffers(r) ==
    /\ pc[r] = "oidc_verify" /\ Replies(r)
    /\ loc[r].tokens.id_token.nonce # loc[r].nonce

(* C4: when the token response of a callback contains an identity token    *)
(* whose nonce claim differs from the nonce stored for the attempt, the     *)
(* callback ends in failure: no session cookie is set and no session is     *)
(* created.                                                                 *)
C4_NonceMismatchIsFailure ==
    [][\A r \in Reqs :
         /\ AuthCallbackNonceDiffers(r) =>
               /\ ~resp'.success /\ resp'.error # ""
               /\ sessions' = sessions
         /\ OidcCallbackNonceDiffers(r) =>
               /\ ~resp'.success /\ resp'.error # ""
               /\ jar'.session_access = jar.session_access
               /\ jar'.session_refresh = jar.session_refresh]_vars

\* the cookie variant alone: verifyIdToken turns the mismatch into failure
OidcNonceMismatchIsFailure ==
    [][\A r \in Reqs :
         OidcCallbackNonceDiffers(r) =>
            /\ ~resp'.success /\ resp'.error # ""
            /\ jar'.session_access = jar.session_access
            /\ jar'.session_refresh = jar.session_refresh]_vars

----------------------------------------------------------------------------
(* The validators as functions: JWTValidator.validateToken and              *)
(* GigyaSDK.validateUserSignature applied to inputs of the caller's choice  *)
(* at the current time.  The result is recorded in resp together with the   *)
(* inputs and the time of the call (at, seconds).                           *)

\* validateToken(j) is called; keysOk is the outcome of the key-set fetch
CallValidateToken(j, keysOk) ==
    /\ resp' = FullReply([op |-> "validate", jwt |-> j, keysOk |-> keysOk,
                          at |-> now,
                          result |-> ValidateToken(j, now, keysOk)])
    /\ UNCHANGED << now, pc, loc, sessions, sidToUser, minted, usedSids, upN,
                    started, jwtVars, codeVars, jar >>

SignatureMaxAge == 300         \* expirationSeconds = 300

SecretKey == "secret"          \* this.secretKey
Uids      == {"u1", "u2"}

\* timestamp strings: hasLead tells whether the string starts with decimal
\* digits, lead is their value, tail is what follows them
Timestamp(hasLead, lead, tail) ==
    [hasLead |-> hasLead, lead |-> lead, tail |-> tail]

\* offsets of the leading number of a timestamp from the time of the call
TimestampOffsets ==
    {0 - SignatureMaxAge - 1, 0 - SignatureMaxAge, 0, SignatureMaxAge,
     SignatureMaxAge + 1}

TimestampTails == {"", "abc"}

\* parseInt(timestamp, 10): the leading decimal digits, NaN without any
ParseInt(timestamp) ==
    [nan |-> ~timestamp.hasLead,
     value |-> IF timestamp.hasLead THEN timestamp.lead ELSE 0]

\* `${timestamp}_${uid}`
BaseString(timestamp, uid) == << timestamp, "_", uid >>

\* calcSignature: HMAC-SHA1 of the base string under the key, base64
CalcSignature(key, baseString) == << "hmac-sha1", key, baseString >>

Abs(x) == IF x < 0 THEN 0 - x ELSE x      \* Math.abs

\* Math.abs(now - signatureTimestamp) > expirationSeconds
SignatureExpired(nowSec, signatureTimestamp, expirationSeconds) ==
    Abs(nowSec - signatureTimestamp) > expirationSeconds

\* GigyaSDK.validateUserSignature
ValidateUserSignature(uid, timestamp, signature, expirationSeconds, nowSec) ==
    LET signatureTimestamp == ParseInt(timestamp)
    IN IF signatureTimestamp.nan THEN FALSE
       ELSE IF SignatureExpired(nowSec, signatureTimestamp.value,
                                expirationSeconds)
         THEN FALSE
       ELSE CalcSignature(SecretKey, BaseString(timestamp, uid)) = signature

\* the signatures presented with (uid, timestamp): the one of the secret
\* holder, the one for another user, one made with another key
SignaturesFor(uid, timestamp) ==
    {CalcSignature(SecretKey, BaseString(timestamp, uid)),
     CalcSignature(SecretKey, BaseString(timestamp, "u0")),
     CalcSignature("other", BaseString(timestamp, uid))}

CallValidateUserSignature(uid, timestamp, signature) ==
    /\ resp' = FullReply([op |-> "signature", uid |-> uid,
                          timestamp |-> timestamp, signature |-> signature,
                          at |-> now,
                          result |-> ValidateUserSignature(uid, timestamp,
                                        signature, SignatureMaxAge, now)])
    /\ UNCHANGED << now, pc, loc, sessions, sidToUser, minted, usedSids, upN,
                    started, jwtVars, codeVars, jar >>

NextValidate ==
    \/ \E j \in Jwts \cup {NoJwt}, keysOk \in BOOLEAN :
          CallValidateToken(j, keysOk)
    \/ \E uid \in Uids, hasLead \in BOOLEAN, d \in TimestampOffsets,
          tail \in TimestampTails :
          LET timestamp == Timestamp(hasLead, IF hasLead THEN now + d ELSE 0,
                                     tail)
          IN \E signature \in SignaturesFor(uid, timestamp) :
                CallValidateUserSignature(uid, timestamp, signature)
    \/ Tick

SpecValidate == Init /\ [][NextValidate]_vars

----------------------------------------------------------------------------
\* the claims of the signed token of assertion j
ClaimsOf(j) == TokenClaims(StripBearer(j)[2])

\* assertion j is valid in every respect other than its expiry
ValidButForExpiry(j, keysOk) ==
    LET c == ClaimsOf(j)
    IN /\ c.wellFormed /\ keysOk /\ c.sig
       /\ c.iss = Issuer /\ c.aud = Audience /\ c.sub # ""

(* C18: validateToken returns a tagged result for every input and never    *)
(* raises: valid=true only when the key set was fetched, the token is       *)
(* well-formed, the signature verifies, issuer and audience are the         *)
(* configured ones, the token is not expired and the subject is non-empty   *)
(* (the payload then is the token's); every other case returns valid=false  *)
(* with an error and no payload.                                            *)
C18_ValidateTaggedResult ==
    resp.op = "validate" =>
       LET c == ClaimsOf(resp.jwt)
           v == resp.result
       IN /\ v.valid \in BOOLEAN
          /\ v.valid =>
                /\ ValidButForExpiry(resp.jwt, resp.keysOk)
                /\ resp.at <= c.exp + ClockTolerance
                /\ v.payload = Payload(StripBearer(resp.jwt))
                /\ v.payload.sub # ""
                /\ v.error = ""
          /\ ~v.valid => v.error # "" /\ v.payload = NoPayload
          /\ (~resp.keysOk \/ ~c.wellFormed \/ ~c.sig \/ c.iss # Issuer
                \/ c.aud # Audience \/ c.sub = ""
                \/ resp.at > c.exp + ClockTolerance) => ~v.valid

\* a well-formed token whose signature does not verify has been refused
\* with an error although the key set was fetched
C18_Witness ==
    /\ resp.op = "validate" /\ resp.keysOk
    /\ ~ClaimsOf(resp.jwt).sig /\ ClaimsOf(resp.jwt).wellFormed
    /\ ~resp.result.valid /\ resp.result.error # ""

(* C19: expiry validation allows a 30-second clock-skew tolerance: an      *)
(* assertion valid in every other respect is accepted when                  *)
(* now <= exp + 30 s and rejected when now > exp + 30 s.                    *)
C19_ClockSkewTolerance ==
    (resp.op = "validate" /\ ValidButForExpiry(resp.jwt, resp.keysOk)) =>
       (resp.result.valid <=>
           resp.at <= ClaimsOf(resp.jwt).exp + ClockTolerance)

----------------------------------------------------------------------------
\* the timestamp is numeric: decimal digits and nothing else
IsNumeric(timestamp) == timestamp.hasLead /\ timestamp.tail = ""

(* C20: validateUserSignature returns true exactly when the timestamp is   *)
(* numeric, |now - timestamp| <= maxAgeSeconds (300) and the signature is   *)
(* the HMAC of "<timestamp>_<subjectId>" under the shared secret; a         *)
(* non-numeric timestamp, a timestamp outside the window or a wrong         *)
(* signature yields false.                                                  *)
C20_UserSignatureExact ==
    resp.op = "signature" =>
       (resp.result <=>
           /\ IsNumeric(resp.timestamp)
           /\ Abs(resp.at - resp.timestamp.lead) <= SignatureMaxAge
           /\ resp.signature
                = CalcSignature(SecretKey,
                                BaseString(resp.timestamp, resp.uid)))

----------------------------------------------------------------------------
\* store keys of the sessions of the authorization-code flow
CodeSessionKeys == {k \in DOMAIN sessions : k[1] = 0}

\* a session of the authorization-code flow is created in this step
CodeSessionCreated ==
    \E k \in DOMAIN sessions' : k[1] = 0 /\ k \notin DOMAIN sessions

\* the callback in slot r is past the state check
CallbackInFlight(r) == pc[r] \in {"cb_exchange", "cb_userinfo"}

(* C14: the authorization-code flow of auth-flow.ts goes from idle through *)
(* /auth/login and the callback to success or failure and back to idle: a  *)
(* session is created only by a callback that named a pending              *)
(* authorization stored before by /auth/login, whose state matched and     *)
(* whose code-for-token exchange succeeded; no session exists for an        *)
(* attempt that /auth/login did not start.                                  *)
C14_SessionOnlyAfterAuthorization ==
    /\ [](/\ \A a \in AuthIds :
               /\ Count(codeSess, a) <= Count(codeCalls, a)
               /\ Count(codeCalls, a) >= 1 => a \in usedAuth
               /\ Has(pendingAuth, a) => a \in usedAuth
          /\ Cardinality(CodeSessionKeys)
               <= Count(codeSess, 1) + Count(codeSess, 2) + Count(codeSess, 3)
          /\ \A r \in Reqs :
               CallbackInFlight(r) =>
                  /\ loc[r].req.authId \in usedAuth
                  /\ loc[r].req.state = loc[r].req.authId
                  /\ loc[r].req.code # None /\ loc[r].req.error = ""
                  /\ ~Has(pendingAuth, loc[r].req.authId)
                  /\ pc[r] = "cb_userinfo" =>
                        /\ loc[r].exchangeStatus \in 200..299
                        /\ loc[r].tokenResponse.access_token # None)
    /\ [][/\ \A r \in Reqs :
               /\ (pc[r] = "idle" /\ pc'[r] = "cb_exchange") =>
                     LET req == loc'[r].req
                     IN /\ Has(pendingAuth, req.authId)
                        /\ pendingAuth[req.authId].state = req.state
                        /\ loc'[r].codeVerifier
                             = pendingAuth[req.authId].codeVerifier
               /\ pc'[r] = "cb_exchange" => pc[r] \in {"idle", "cb_exchange"}
               /\ pc'[r] = "cb_userinfo" =>
                     pc[r] \in {"cb_exchange", "cb_userinfo"}
          /\ CodeSessionCreated =>
               \E r \in Reqs :
                  /\ pc[r] = "cb_userinfo" /\ pc'[r] = "idle"
                  /\ resp'.op = "auth_callback" /\ resp'.success
                  /\ resp'.upstream \in 200..299
                  /\ sessions'[resp'.sessionId].accessToken
                       = loc[r].tokenResponse.access_token
                  /\ codeSess'[loc[r].req.authId]
                       = Count(codeSess, loc[r].req.authId) + 1]_vars

\* a callback has ended with a session; the attempt it belongs to was
\* started by /auth/login and is pending no longer
C14_Witness ==
    /\ resp.op = "auth_callback" /\ resp.success
    /\ Has(sessions, resp.sessionId)
    /\ resp.req.authId \in usedAuth
    /\ Count(codeSess, resp.req.authId) = 1
    /\ ~Has(pendingAuth, resp.req.authId)
    /\ \A r \in Reqs : pc[r] = "idle"

----------------------------------------------------------------------------
(* C15: a callback whose auth_id is unknown, or whose pending              *)
(* authorization was created more than 10 minutes ago, fails with           *)
(* invalid_request and performs no code-for-token exchange, whether or not  *)
(* the sweep has removed the entry (callbacks with a code, the state of     *)
(* the attempt and no provider error).                                      *)
C15_ExpiredPendingAuthRejected ==
    [][\A r \in Reqs :
         LET req == ReceivedReq(r)
         IN (/\ AuthCallbackReceived(r)
             /\ req.error = "" /\ req.code # None
             /\ req.authId # None /\ req.state = req.authId
             /\ \/ ~Has(pendingAuth, req.authId)
                \/ PendingExpired(pendingAuth[req.authId], NowMs))
            => /\ pc' = pc
               /\ resp'.status = 400 /\ resp'.error = "invalid_request"
               /\ codeCalls' = codeCalls]_vars

----------------------------------------------------------------------------
(* C16: a callback that carries a provider error parameter ends in failure *)
(* reporting that same error value, whatever code, state and auth_id (or    *)
(* cookies) it carries: no code-for-token exchange, no session, no session  *)
(* cookie.                                                                  *)
C16_ProviderErrorReported ==
    [][\A r \in Reqs :
         LET req == ReceivedReq(r)
         IN /\ (AuthCallbackReceived(r) /\ req.error # "") =>
                  /\ pc' = pc /\ ~resp'.success
                  /\ resp'.status = 302 /\ resp'.error = req.error
                  /\ codeCalls' = codeCalls /\ codeSess' = codeSess
                  /\ sessions' = sessions /\ sidToUser' = sidToUser
            /\ (OidcCallbackReceived(r) /\ req.error # "") =>
                  /\ pc' = pc /\ ~resp'.success
                  /\ resp'.status = 302 /\ resp'.error = req.error
                  /\ jar'.session_access = jar.session_access
                  /\ jar'.session_refresh = jar.session_refresh
                  /\ sessions' = sessions]_vars

\* a callback that carried the code and the state of a pending
\* authorization together with a provider error has been turned down with
\* that error, and the authorization is still pending
C16_Witness ==
    /\ resp.op = "auth_callback" /\ resp.error = "access_denied"
    /\ resp.req.error = "access_denied"
    /\ resp.req.code # None
    /\ Has(pendingAuth, resp.req.authId)
    /\ resp.req.state = pendingAuth[resp.req.authId].state
    /\ codeCalls = EmptyMap /\ sessions = EmptyMap

----------------------------------------------------------------------------
\* /auth/login is served in this step
AuthLoginStep ==
    started' = started + 1 /\ pc' = pc /\ resp'.op = "auth_login"

\* POST /oidc/authorize is served in this step
OidcAuthorizeStep ==
    started' = started + 1 /\ pc' = pc /\ resp'.op = "oidc_authorize"

(* C17: requestAuthorization stores exactly one new pending authorization  *)
(* under the returned attempt id and leaves the other entries unchanged;    *)
(* the state and the nonce embedded in the returned authorization URL       *)
(* equal the state and the nonce stored for the attempt, code_challenge is  *)
(* the challenge derived from the stored verifier and                       *)
(* code_challenge_method is S256.                                           *)
C17_AuthorizationUrlMatchesStored ==
    [][/\ AuthLoginStep =>
            LET a == resp'.authId
                url == resp'.url
            IN /\ ~Has(pendingAuth, a)
               /\ DOMAIN pendingAuth' = DOMAIN pendingAuth \cup {a}
               /\ \A b \in DOMAIN pendingAuth :
                     pendingAuth'[b] = pendingAuth[b]
               /\ url.state = pendingAuth'[a].state
               /\ "nonce" \in DOMAIN url
               /\ "nonce" \in DOMAIN pendingAuth'[a]
               /\ url.code_challenge
                    = GenerateCodeChallenge(pendingAuth'[a].codeVerifier)
               /\ url.code_challenge_method = "S256"
       /\ OidcAuthorizeStep =>
            LET url == resp'.url
            IN /\ url.state = jar'.oidc_state /\ url.state # None
               /\ url.nonce = jar'.oidc_nonce /\ url.nonce # None
               /\ url.code_challenge
                    = GenerateCodeChallenge(jar'.oidc_verifier)
               /\ url.code_challenge_method = "S256"]_vars

\* the part of C17 the code keeps: one new entry, state and challenge of
\* the URL are those of the entry (cookies in the cookie variant)
AuthorizationUrlStateAndChallenge ==
    [][/\ AuthLoginStep =>
            LET a == resp'.authId
                url == resp'.url
            IN /\ ~Has(pendingAuth, a)
               /\ DOMAIN pendingAuth' = DOMAIN pendingAuth \cup {a}
               /\ \A b \in DOMAIN pendingAuth :
                     pendingAuth'[b] = pendingAuth[b]
               /\ url.state = pendingAuth'[a].state
               /\ url.code_challenge
                    = GenerateCodeChallenge(pendingAuth'[a].codeVerifier)
               /\ url.code_challenge_method = "S256"
       /\ OidcAuthorizeStep =>
            LET url == resp'.url
            IN /\ url.state = jar'.oidc_state /\ url.state # None
               /\ url.nonce = jar'.oidc_nonce /\ url.nonce # None
               /\ url.code_challenge
                    = GenerateCodeChallenge(jar'.oidc_verifier)
               /\ url.code_challenge_method = "S256"]_vars

----------------------------------------------------------------------------
\* the last reply is a session check or a protected route that took cookie
\* c for an authenticated session
AcceptedReply(c) ==
    /\ resp.cookie = c
    /\ \/ resp.op = "session" /\ resp.authenticated
       \/ resp.op = "protected" /\ resp.status = 200

\* jwtAuthMiddleware would let a request with cookie c through
MiddlewareAccepts(c) ==
    /\ SessionStoreHas(Store, JwtKey(c))
    /\ ~(SessionStoreGet(Store, JwtKey(c)).commerceTokenExpiry
           < NowMs + BufferMs)

\* no handler is in flight
AllIdle == \A r \in Reqs : pc[r] = "idle"

(* C11: after a login and then a logout called with the cookie of that     *)
(* login, every later session check with that cookie reports                *)
(* unauthenticated and no protected route accepts that session id.          *)
C11_LoggedOutStaysOut ==
    \A c \in resp.loggedOut : ~AcceptedReply(c) /\ ~MiddlewareAccepts(c)

----------------------------------------------------------------------------
(* C13: there is no lost update between a concurrent delete and a           *)
(* read-modify-write of the session store: after a logout of session s      *)
(* interleaved with session checks or refreshes of s that are in flight,    *)
(* s is absent from the store once all handlers have finished.              *)
C13_NoLostUpdate ==
    AllIdle =>
       \A c \in resp.loggedOut : ~SessionStoreHas(Store, JwtKey(c))

----------------------------------------------------------------------------
(* The two login flows side by side: the JWT login and the                  *)
(* authorization-code login write to the one SessionStore.  Both draw       *)
(* their session ids with crypto.randomBytes(32), so the same id may come   *)
(* up in both.                                                              *)

NextLogins ==
    \/ \E r \in Reqs, j \in LoginJwts \cup {NoJwt} : LoginStart(r, j)
    \/ \E r \in Reqs : LoginValidated(r)
    \/ \E r \in Reqs : LoginExchanged(r)
    \/ \E r \in Reqs : AuthLogin(r)
    \/ \E r \in Reqs, code \in Codes, state \in QueryStates,
          error \in QueryErrors, authId \in AuthCookies :
          AuthCallback(r, code, state, error, authId)
    \/ \E r \in Reqs : AuthCallbackExchanged(r)
    \/ \E r \in Reqs : AuthCallbackUserInfo(r)

SpecLogins == Init /\ [][NextLogins]_vars

\* the record was written by the JWT login (createSessionData of
\* gigya_dev.ts), not by the authorization-code callback
IsJwtRecord(data) == "originalJWT" \in DOMAIN data

\* store key k carries the jwt_ prefix
HasJwtPrefix(k) == k[1] >= 1

\* a login of the JWT flow / of the authorization-code flow succeeds in
\* this step
JwtLoginSucceeds == resp' # resp /\ resp'.op = "login" /\ resp'.success
CodeLoginSucceeds ==
    resp' # resp /\ resp'.op = "auth_callback" /\ resp'.success

(* C12: the store keys of the JWT flow (prefix jwt_) and of the             *)
(* authorization-code flow are disjoint: every JWT session lies under a     *)
(* prefixed key and every code-flow session under an unprefixed one; a      *)
(* login in one flow adds one session under a key of its own kind and       *)
(* never overwrites or alters a session of the other flow.                  *)
C12_FlowKeysDisjoint ==
    /\ [](\A k \in DOMAIN sessions :
             HasJwtPrefix(k) <=> IsJwtRecord(sessions[k]))
    /\ [][/\ JwtLoginSucceeds =>
               /\ HasJwtPrefix(JwtKey(resp'.sessionId))
               /\ DOMAIN sessions'
                    = DOMAIN sessions \cup {JwtKey(resp'.sessionId)}
               /\ \A k \in DOMAIN sessions :
                     ~HasJwtPrefix(k) => sessions'[k] = sessions[k]
               /\ sidToUser' = sidToUser
          /\ CodeLoginSucceeds =>
               /\ ~HasJwtPrefix(resp'.sessionId)
               /\ DOMAIN sessions' = DOMAIN sessions \cup {resp'.sessionId}
               /\ \A k \in DOMAIN sessions :
                     HasJwtPrefix(k) => sessions'[k] = sessions[k]
               /\ \A k \in DOMAIN sidToUser :
                     HasJwtPrefix(k) => sidToUser'[k] = sidToUser[k]]_vars

\* both flows have logged in and drew the same session id: the two
\* sessions lie side by side in the store
C12_Witness ==
    \E n \in 1..MaxSid :
       /\ Has(sessions, JwtKey(SidCookie(n)))
       /\ IsJwtRecord(sessions[JwtKey(SidCookie(n))])
       /\ Has(sessions, CodeKey(n))
       /\ ~IsJwtRecord(sessions[CodeKey(n)])

----------------------------------------------------------------------------
\* jwtAuthMiddleware in slot r answers a request with cookie c in this step
ProtectedStep(c) ==
    /\ started' = started + 1 /\ pc' = pc
    /\ resp'.op = "protected" /\ resp'.cookie = c

(* C22: a session leaves the store only through logout, through a failed   *)
(* refresh of an expired session, or because it is expired and holds no     *)
(* refresh token (bulk delete-by-subject and the sweep are not part of the  *)
(* JWT routes); in particular an access check on a protected route never    *)
(* removes a session that still holds a refresh token.                      *)
C22_SessionLeavesOnlyByLifecycle ==
    [][/\ \A k \in DOMAIN sessions :
            k \notin DOMAIN sessions' =>
               \/ \E c \in JwtCookies \ {NoCookie} :
                     LogoutStep(c) /\ JwtKey(c) = k
               \/ \E r \in Reqs :
                     CheckSessionRefreshFails(r) /\ JwtKey(loc[r].cookie) = k
               \/ /\ sessions[k].commerceTokenExpiry < NowMs + BufferMs
                  /\ sessions[k].commerceRefreshToken = None
       /\ \A c \in JwtCookies \ {NoCookie} :
            (/\ ProtectedStep(c)
             /\ Has(sessions, JwtKey(c))
             /\ sessions[JwtKey(c)].commerceRefreshToken # None)
            => Has(sessions', JwtKey(c))]_vars

----------------------------------------------------------------------------
\* GET /jwt-auth/session is received by slot r in this step with a cookie
SessionCheckReceived(r) ==
    /\ FreeSlot(r) /\ started' = started + 1
    /\ \/ pc' = pc /\ resp'.op = "session" /\ resp'.cookie # NoCookie
       \/ pc'[r] = "session_refresh"

\* the cookie of that request
SessionCheckCookie(r) == IF pc' = pc THEN resp'.cookie ELSE loc'[r].cookie

\* that request takes the session for expired: it starts a refresh or
\* answers unauthenticated
TreatedAsExpired(r) ==
    \/ pc'[r] = "session_refresh"
    \/ pc' = pc /\ ~resp'.authenticated

\* a login stores the session of a token obtained from upstream in this step
LoginStoresExchanged(r) ==
    pc[r] = "login_exchange" /\ Replies(r) /\ resp'.status = 200

(* C25 as claimed: a session is treated as expired exactly when             *)
(* now >= obtainedAt + expiresIn*1000 - 60000 (epoch milliseconds), the     *)
(* boundary now = obtainedAt + expiresIn*1000 - 60000 included.             *)
C25_SessionExpiryPredicate_Claimed ==
    [][\A r \in Reqs :
         (/\ SessionCheckReceived(r)
          /\ Has(sessions, JwtKey(SessionCheckCookie(r))))
         => (TreatedAsExpired(r) <=>
                NowMs >= sessions[JwtKey(SessionCheckCookie(r))]
                            .commerceTokenExpiry - BufferMs)]_vars

(* C25 as amended: the expiry of a session is obtainedAt + expiresIn*1000   *)
(* in epoch milliseconds, and the session is treated as expired exactly     *)
(* when now > obtainedAt + expiresIn*1000 - 60000; at the boundary          *)
(* now = obtainedAt + expiresIn*1000 - 60000 it is not yet expired.         *)
C25_SessionExpiryPredicate ==
    [][\A r \in Reqs :
         /\ (/\ SessionCheckReceived(r)
             /\ Has(sessions, JwtKey(SessionCheckCookie(r))))
            => LET expiry == sessions[JwtKey(SessionCheckCookie(r))]
                                .commerceTokenExpiry
               IN /\ TreatedAsExpired(r) <=> NowMs > expiry - BufferMs
                  /\ NowMs = expiry - BufferMs =>
                        pc' = pc /\ resp'.authenticated
         /\ LoginStoresExchanged(r) =>
               sessions'[JwtKey(resp'.sessionId)].commerceTokenExpiry
                 = NowMs + tokenCache'[GetCacheKey(loc[r].jwt)].v.expires_in
                             * 1000]_vars

\* a session check made at the very boundary has answered authenticated
C25_Witness ==
    /\ resp.op = "session" /\ resp.authenticated /\ resp.upstream = 0
    /\ Has(sessions, JwtKey(resp.cookie))
    /\ sessions[JwtKey(resp.cookie)].lastAccessed = NowMs
    /\ sessions[JwtKey(resp.cookie)].commerceTokenExpiry = NowMs + BufferMs

----------------------------------------------------------------------------
(* C26: the cache TTL given to a successful exchange result is              *)
(* expiresIn - 60 s and is never negative; when expiresIn - 60 <= 0 the     *)
(* result is not kept in the cache, so the next exchange of the assertion   *)
(* performs a new upstream call.                                            *)
C26_NonPositiveTtlNotCached ==
    [][\A r \in Reqs :
         /\ LoginStoresExchanged(r) =>
               LET key == GetCacheKey(loc[r].jwt)
               IN Has(tokenCache', key) =>
                     /\ CacheTtl(tokenCache'[key].v) > 0
                     /\ tokenCache'[key].t
                          = NowMs + CacheTtl(tokenCache'[key].v) * 1000
         /\ (/\ pc[r] = "login_validate" /\ pc'[r] # "login_validate"
             /\ ~LoginRejects(r)
             /\ Has(tokenCache, GetCacheKey(loc[r].jwt))
             /\ CacheTtl(tokenCache[GetCacheKey(loc[r].jwt)].v) <= 0)
            => LoginCallsUpstream(r)]_vars

----------------------------------------------------------------------------
\* a handler that awaits the answer of the upstream token endpoint
AwaitsUpstream(label) ==
    label \in {"login_exchange", "session_refresh", "refresh_await"}

\* slot r is engaged in refreshCommerceToken in this step: it issues the
\* request or receives the answer
RefreshCallStep(r) ==
    \/ pc[r] = "idle" /\ pc'[r] \in {"session_refresh", "refresh_await"}
    \/ pc[r] \in {"session_refresh", "refresh_await"} /\ pc'[r] # pc[r]

(* C27: refreshCommerceToken neither reads nor writes the assertion cache:  *)
(* the cache contents before and after any refresh, successful or failed,   *)
(* are identical.                                                           *)
C27_RefreshLeavesCache ==
    [][\A r \in Reqs : RefreshCallStep(r) => tokenCache' = tokenCache]_vars

\* POST /jwt-auth/refresh has succeeded: the session holds the new token and
\* the cache still holds the entry of the login, with the token of the login
C27_Witness ==
    /\ resp.op = "refresh" /\ resp.success
    /\ Has(sessions, JwtKey(resp.cookie))
    /\ LET session == sessions[JwtKey(resp.cookie)]
           key == GetCacheKey(session.originalJWT)
       IN /\ Has(tokenCache, key)
          /\ tokenCache[key].at = session.createdAt
          /\ tokenCache[key].v.access_token # session.commerceAccessToken

----------------------------------------------------------------------------
(* C28: nothing is retried: each invocation of exchange or refresh issues   *)
(* at most one upstream token request; a login, session check or refresh    *)
(* whose upstream call fails returns its failure without issuing a second   *)
(* upstream request.                                                        *)
C28_NoRetry ==
    /\ [](upN <= started)
    /\ [][/\ upN' # upN =>
               /\ upN' = upN + 1
               /\ \E r \in Reqs :
                     /\ pc[r] \in {"idle", "login_validate"}
                     /\ AwaitsUpstream(pc'[r])
          /\ \A r \in Reqs :
               (AwaitsUpstream(pc[r]) /\ pc'[r] # pc[r]) =>
                  /\ pc'[r] = "idle" /\ upN' = upN
                  /\ minted' = minted =>
                        /\ ~resp'.success /\ ~resp'.authenticated
                        /\ resp'.status \in {401, 500}
                  /\ minted' # minted => resp'.status = 200]_vars

\* a login and a session check have each had their one upstream request;
\* the refresh of the session check failed and was answered as a failure
C28_Witness ==
    /\ resp.op = "session" /\ ~resp.authenticated
    /\ resp.message = "Session expired and refresh failed"
    /\ resp.upstream = 500
    /\ started = 2 /\ upN = 2
    /\ \A r \in Reqs : pc[r] = "idle"

----------------------------------------------------------------------------
(* C29: two concurrent exchange calls for the same assertion, starting with *)
(* no cache entry for it, are tolerated: each makes one upstream call (two  *)
(* in all), each returns its token, and an exchange that finishes leaves    *)
(* the entry of the assertion holding its own result, so that when both     *)
(* have finished the cache holds one entry for the assertion, equal to the  *)
(* result of the one that finished last.                                    *)
C29_ConcurrentExchangeTolerated ==
    [][\A r \in Reqs :
         /\ LoginCallsUpstream(r) =>
               /\ upN' = upN + 1
               /\ ~Has(tokenCache', GetCacheKey(loc[r].jwt))
         /\ LoginStoresExchanged(r) =>
               LET key == GetCacheKey(loc[r].jwt)
                   session == sessions'[JwtKey(resp'.sessionId)]
               IN /\ resp'.success /\ upN' = upN
                  /\ session.originalJWT = loc[r].jwt
                  /\ session.commerceAccessToken = minted'
                  /\ Has(tokenCache', key)
                  /\ tokenCache'[key].v.access_token
                       = session.commerceAccessToken
                  /\ \A k \in DOMAIN tokenCache' :
                        k # key => /\ Has(tokenCache, k)
                                   /\ tokenCache'[k] = tokenCache[k]]_vars

\* two logins with one assertion have both asked the upstream (the first
\* result would have served the second from the cache had they run one
\* after the other); the cache holds the result of one of them
C29_Witness ==
    /\ upN = 2 /\ started = 2 /\ \A r \in Reqs : pc[r] = "idle"
    /\ \E k1, k2 \in SessionKeys :
          /\ k1 # k2
          /\ sessions[k1].originalJWT = sessions[k2].originalJWT
          /\ sessions[k1].commerceAccessToken = 1
          /\ sessions[k2].commerceAccessToken = 2
          /\ sessions[k1].commerceTokenExpiry
               = sessions[k1].createdAt + (ExpiryBufferSec + 1) * 1000
          /\ sessions[k2].createdAt = sessions[k1].createdAt
          /\ LET key == GetCacheKey(sessions[k1].originalJWT)
             IN /\ Has(tokenCache, key)
                /\ tokenCache[key].v.access_token = 2

----------------------------------------------------------------------------
(* SessionStore: the operations over all sessions, called on the store      *)
(* directly                                                                 *)

\* data.userInfo?.sub === userId
SubIs(data, userId) ==
    /\ "userInfo" \in DOMAIN data
    /\ data.userInfo.sub = userId

\* data.userInfo?.uid === userId
UidIs(data, userId) ==
    /\ "userInfo" \in DOMAIN data
    /\ "uid" \in DOMAIN data.userInfo
    /\ data.userInfo.uid = userId

\* SessionStore.getSessionsByUserId: the records returned, each named by
\* the id it is stored under
GetSessionsByUserId(S, userId) ==
    [id \in {x \in DOMAIN S.sessions : SubIs(S.sessions[x], userId)}
       |-> S.sessions[id]]

\* SessionStore.deleteAllForUser: the store afterwards and the count returned
DeleteAllForUser(S, userId) ==
    LET sessionsToDelete ==
          {id \in DOMAIN S.sessions :
              SubIs(S.sessions[id], userId) \/ UidIs(S.sessions[id], userId)}
    IN [store |-> DeleteEach(S, sessionsToDelete),
        deleted |-> Cardinality(sessionsToDelete)]

\* subjects and the userinfo answers sessions are created from: sub without
\* uid, sub with another subject's value as uid, sub with its own uid
Subjects == {"u1", "u2"}

UserInfos ==
    {UserInfo,
     [sub |-> "u2", email |-> "u2@x", uid |-> "u1"],
     [sub |-> "u2", email |-> "u2@x", uid |-> "u2"]}

\* the records the two flows store
CodeRecords ==
    {CdcCreateSessionData(
         CodeTokenResponse(1, e, rt, NoIdToken), ui, NowMs) :
       e \in ExpiresIns, rt \in {None, 1}, ui \in UserInfos}

JwtRecords ==
    {CreateSessionData(<< "", "good" >>,
         [sub |-> "u1", email |-> "u1@x", name |-> "U One", uid |-> "uid1"],
         TokenResponse(1, e, rt), NowMs) :
       e \in ExpiresIns, rt \in {None, 1}}

\* one call on the store is made
StoreCall(reply) ==
    /\ started < MaxOps
    /\ started' = started + 1
    /\ resp' = FullReply(reply)
    /\ UNCHANGED << now, pc, loc, minted, usedSids, upN, jwtVars, codeVars,
                    jar >>

\* sessionStore.set(id, data) as the callback of auth-flow.ts calls it
StoreSetCode(n, data) ==
    /\ SetStore(SessionStoreSet(Store, CodeKey(n), data))
    /\ StoreCall([op |-> "set", sessionId |-> CodeKey(n)])

\* sessionStore.set(`jwt_${sessionId}`, data) as the JWT login calls it
StoreSetJwt(n, data) ==
    /\ SetStore(SessionStoreSet(Store, JwtKey(SidCookie(n)), data))
    /\ StoreCall([op |-> "set", sessionId |-> JwtKey(SidCookie(n))])

\* sessionStore.cleanExpired()
CallCleanExpired ==
    LET result == CleanExpired(Store, NowMs)
    IN /\ SetStore(result.store)
       /\ StoreCall([op |-> "cleanExpired", count |-> result.cleaned])

\* sessionStore.deleteAllForUser(userId)
CallDeleteAllForUser(userId) ==
    LET result == DeleteAllForUser(Store, userId)
    IN /\ SetStore(result.store)
       /\ StoreCall([op |-> "deleteAllForUser", userId |-> userId,
                     count |-> result.deleted])

\* SessionStore.update: the fields given are laid over the stored record,
\* which is written to the sessions map itself; a missing session is left
\* missing
SessionStoreUpdate(S, id, data) ==
    IF ~Has(S.sessions, id) THEN S
    ELSE LET existingSession == S.sessions[id]
             updatedSession ==
                 [f \in DOMAIN existingSession \cup DOMAIN data |->
                     IF f \in DOMAIN data THEN data[f]
                     ELSE existingSession[f]]
         IN [sessions |-> MapSet(S.sessions, id, updatedSession),
             idx      |-> S.idx]

\* SessionStore.clear
SessionStoreClear(S) == [sessions |-> EmptyMap, idx |-> EmptyMap]

\* the partial records update is called with: new tokens, or the user
\* info of another answer of the userinfo endpoint
UpdatePartials ==
    {[accessToken |-> 2, expiresAt |-> NowMs + 61000],
     [userInfo |-> [sub |-> "u2", email |-> "u2@x", uid |-> "u2"]]}

\* sessionStore.update(id, data)
CallStoreUpdate(id, data) ==
    /\ SetStore(SessionStoreUpdate(Store, id, data))
    /\ StoreCall([op |-> "update", sessionId |-> id,
                  found |-> SessionStoreHas(Store, id)])

\* sessionStore.delete(id)
CallStoreDelete(id) ==
    /\ SetStore(SessionStoreDelete(Store, id))
    /\ StoreCall([op |-> "delete", sessionId |-> id,
                  found |-> SessionStoreHas(Store, id)])

\* sessionStore.clear()
CallStoreClear ==
    /\ SetStore(SessionStoreClear(Store))
    /\ StoreCall([op |-> "clear"])

NextStore ==
    \/ \E n \in 1..MaxSid, data \in CodeRecords : StoreSetCode(n, data)
    \/ \E n \in 1..MaxSid, data \in JwtRecords : StoreSetJwt(n, data)
    \/ CallCleanExpired
    \/ \E userId \in Subjects : CallDeleteAllForUser(userId)
    \/ \E id \in CookieVals, data \in UpdatePartials :
          CallStoreUpdate(id, data)
    \/ \E id \in CookieVals : CallStoreDelete(id)
    \/ CallStoreClear
    \/ Tick

SpecStore == Init /\ [][NextStore]_vars

----------------------------------------------------------------------------
\* the commerce access-token expiry of a record of either flow
AccessTokenExpiry(data) ==
    IF IsJwtRecord(data) THEN data.commerceTokenExpiry ELSE data.expiresAt

\* the refresh token of a record of either flow (None: none)
RefreshTokenOf(data) ==
    IF IsJwtRecord(data) THEN data.commerceRefreshToken ELSE data.refreshToken

\* the access-token expiry has passed and there is no refresh token
ExpiredBeyondRefresh(data, nowMs) ==
    AccessTokenExpiry(data) <= nowMs /\ RefreshTokenOf(data) = None

\* cleanExpired is called in this step
CleanExpiredStep == started' = started + 1 /\ resp'.op = "cleanExpired"

(* C21: cleanExpired removes exactly the sessions whose commerce            *)
(* access-token expiry has passed and which have no refresh token, returns  *)
(* the number removed, and leaves every other session (unexpired, or        *)
(* expired but holding a refresh token) unchanged, for sessions of both     *)
(* flows.                                                                   *)
C21_SweepRemovesExactlyUnrecoverable ==
    [][CleanExpiredStep =>
          LET gone == {k \in DOMAIN sessions :
                          ExpiredBeyondRefresh(sessions[k], NowMs)}
          IN /\ DOMAIN sessions' = DOMAIN sessions \ gone
             /\ \A k \in DOMAIN sessions' : sessions'[k] = sessions[k]
             /\ resp'.count = Cardinality(gone)]_vars

----------------------------------------------------------------------------
\* deleteAllForUser(u) is called in this step
DeleteAllForUserStep(u) ==
    /\ started' = started + 1
    /\ resp'.op = "deleteAllForUser" /\ resp'.userId = u

(* C23: deleteAllForUser(u) removes exactly the sessions that               *)
(* getSessionsByUserId(u) returned immediately before the call, returns     *)
(* their number, leaves every other session unchanged, and afterwards       *)
(* getSessionsByUserId(u) is empty.                                         *)
C23_DeleteAllMatchesFind ==
    [][\A u \in Subjects :
         DeleteAllForUserStep(u) =>
            LET found == DOMAIN GetSessionsByUserId(Store, u)
            IN /\ DOMAIN sessions' = DOMAIN sessions \ found
               /\ \A k \in DOMAIN sessions' : sessions'[k] = sessions[k]
               /\ resp'.count = Cardinality(found)
               /\ GetSessionsByUserId(
                      [sessions |-> sessions', idx |-> sidToUser'], u)
                    = EmptyMap]_vars

----------------------------------------------------------------------------
(* POST /auth/refresh of registerAuthFlowRoutes                             *)

\* the session_id cookie values a client may present
SessionIdCookies == CookieVals \cup {NoCookie}

\* session.refreshToken; a record without the field reads as undefined
RefreshTokenField(data) ==
    IF "refreshToken" \in DOMAIN data THEN data.refreshToken ELSE None

\* lines 288-306: the cookie is read and the session looked up; a session
\* without refresh token is answered 401 and left where it is; otherwise
\* the handler awaits refreshAccessToken
AuthRefresh(r, cookie) ==
    /\ Receive(r)
    /\ IF cookie = NoCookie
         THEN Reply(r, [op |-> "auth_refresh", status |-> 401,
                        error |-> "no_session", cookie |-> cookie])
         ELSE IF \/ ~SessionStoreHas(Store, cookie)
                 \/ RefreshTokenField(SessionStoreGet(Store, cookie)) = None
                THEN Reply(r, [op |-> "auth_refresh", status |-> 401,
                               error |-> "invalid_session",
                               cookie |-> cookie])
                ELSE Await(r, "rf_refresh",
                           [op |-> "auth_refresh", cookie |-> cookie,
                            refreshToken |->
                               SessionStoreGet(Store, cookie).refreshToken])
    /\ UNCHANGED << now, sessions, sidToUser, minted, usedSids, upN,
                    jwtVars, codeVars, jar >>

\* the token endpoint has answered refreshAccessToken; on success the
\* handler awaits getUserInfo, on failure the catch replies 500
AuthRefreshAnswered(r) ==
    /\ pc[r] = "rf_refresh"
    /\ \E status \in UpStatuses :
         IF ~CdcResponseOk(status)
           THEN /\ Reply(r, [op |-> "auth_refresh", status |-> 500,
                             error |-> "refresh_failed",
                             upstream |-> status, cookie |-> loc[r].cookie])
                /\ UNCHANGED minted
           ELSE \E e \in ExpiresIns, hasRt \in BOOLEAN :
                  /\ minted < MaxTok
                  /\ minted' = minted + 1
                  /\ Await(r, "rf_userinfo",
                           [op |-> "auth_refresh", cookie |-> loc[r].cookie,
                            tokenResponse |->
                               CodeTokenResponse(minted + 1, e,
                                   IF hasRt THEN minted + 1 ELSE None,
                                   NoIdToken)])
    /\ UNCHANGED << now, sessions, sidToUser, usedSids, upN, started,
                    jwtVars, codeVars, jar >>

\* mutant: the new session data is written with SessionStore.update, which
\* writes only where the session is still in the store
AuthRefreshUserInfo_UpdateOnly(r) ==
    /\ pc[r] = "rf_userinfo"
    /\ \E status \in UpStatuses :
         IF ~CdcResponseOk(status)
           THEN /\ Reply(r, [op |-> "auth_refresh", status |-> 500,
                             error |-> "refresh_failed",
                             upstream |-> status, cookie |-> loc[r].cookie])
                /\ UNCHANGED << sessions, sidToUser >>
           ELSE LET newSessionData ==
                      CdcCreateSessionData(loc[r].tokenResponse, UserInfo,
                                           NowMs)
                IN /\ IF SessionStoreHas(Store, loc[r].cookie)
                        THEN SetStore(SessionStoreSet(Store, loc[r].cookie,
                                                      newSessionData))
                        ELSE UNCHANGED << sessions, sidToUser >>
                   /\ Reply(r, [op |-> "auth_refresh", status |-> 200,
                                success |-> TRUE, upstream |-> status,
                                cookie |-> loc[r].cookie,
                                reinserted |->
                                   ~SessionStoreHas(Store, loc[r].cookie)])
    /\ UNCHANGED << now, minted, usedSids, upN, started, jwtVars,
                    codeVars, jar >>

\* the userinfo endpoint has answered; lines 308-314 build the new session
\* data and store it under the session id of the cookie.  The reply notes
\* whether the session had left the store while the handler was waiting.
AuthRefreshUserInfo(r) ==
    /\ pc[r] = "rf_userinfo"
    /\ \E status \in UpStatuses :
         IF ~CdcResponseOk(status)
           THEN /\ Reply(r, [op |-> "auth_refresh", status |-> 500,
                             error |-> "refresh_failed",
                             upstream |-> status, cookie |-> loc[r].cookie])
                /\ UNCHANGED << sessions, sidToUser >>
           ELSE LET newSessionData ==
                      CdcCreateSessionData(loc[r].tokenResponse, UserInfo,
                                           NowMs)
                IN /\ SetStore(SessionStoreSet(Store, loc[r].cookie,
                                               newSessionData))
                   /\ Reply(r, [op |-> "auth_refresh", status |-> 200,
                                success |-> TRUE, upstream |-> status,
                                cookie |-> loc[r].cookie,
                                reinserted |->
                                   ~SessionStoreHas(Store, loc[r].cookie)])
    /\ UNCHANGED << now, minted, usedSids, upN, started, jwtVars,
                    codeVars, jar >>

\* the routes of auth-flow.ts with the two timers it registers
NextRefresh ==
    \/ \E r \in Reqs : AuthLogin(r)
    \/ \E r \in Reqs, code \in Codes, state \in QueryStates,
          error \in QueryErrors, authId \in AuthCookies :
          AuthCallback(r, code, state, error, authId)
    \/ \E r \in Reqs : AuthCallbackExchanged(r)
    \/ \E r \in Reqs : AuthCallbackUserInfo(r)
    \/ \E r \in Reqs, cookie \in SessionIdCookies : AuthRefresh(r, cookie)
    \/ \E r \in Reqs : AuthRefreshAnswered(r)
    \/ \E r \in Reqs : AuthRefreshUserInfo(r)
    \/ TickPeriod

SpecRefresh == Init /\ [][NextRefresh]_vars

\* POST /auth/refresh is received by slot r in this step
AuthRefreshReceived(r) ==
    /\ pc[r] = "idle"
    /\ started' = started + 1
    /\ \/ pc'[r] = "rf_refresh"
       \/ pc'[r] = "idle" /\ resp'.op = "auth_refresh"

\* the refresh in slot r ends with the success reply in this step
AuthRefreshSucceeds(r) ==
    pc[r] = "rf_userinfo" /\ Replies(r) /\ resp'.status = 200

\* C24: POST /auth/refresh, called for a stored session: with a refresh
\* token and a successful upstream refresh the session stays in the store
\* under the same id with the new tokens; without a refresh token the
\* session is deleted and the caller is told to re-authenticate.
C24_RefreshEndpoint ==
    [][\A r \in Reqs :
         /\ AuthRefreshSucceeds(r) =>
               /\ SessionStoreHas(Store', loc[r].cookie)
               /\ SessionStoreGet(Store', loc[r].cookie).accessToken
                    = loc[r].tokenResponse.access_token
         /\ (/\ AuthRefreshReceived(r)
             /\ pc'[r] = "idle"
             /\ resp'.cookie # NoCookie
             /\ SessionStoreHas(Store, resp'.cookie)
             /\ RefreshTokenField(SessionStoreGet(Store, resp'.cookie))
                  = None) =>
               /\ resp'.status = 401
               /\ ~SessionStoreHas(Store', resp'.cookie)]_vars

\* C30: a sweep does not take an entry away from a handler that is using
\* it.  A refresh that succeeds leaves its session in the store with the
\* refreshed tokens, also when the session sweep ran while the handler was
\* waiting for the upstream; a callback that found its pending
\* authorization and matched state goes on with the codeVerifier of that
\* entry, whatever the pendingAuth sweep does meanwhile; the clock and its
\* sweeps touch no handler's locals.
C30_SweepCannotRemoveMidUse ==
    /\ [][\A r \in Reqs :
            /\ AuthRefreshSucceeds(r) =>
                  /\ SessionStoreHas(Store', loc[r].cookie)
                  /\ SessionStoreGet(Store', loc[r].cookie)
                       = CdcCreateSessionData(loc[r].tokenResponse, UserInfo,
                                              NowMs)
            /\ (pc[r] = "idle" /\ pc'[r] = "cb_exchange") =>
                  /\ Has(pendingAuth, loc'[r].req.authId)
                  /\ loc'[r].codeVerifier
                       = pendingAuth[loc'[r].req.authId].codeVerifier
            /\ (pc[r] = "cb_exchange" /\ pc'[r] = "cb_exchange") =>
                  loc'[r] = loc[r]
            /\ (pc[r] = "rf_refresh" /\ pc'[r] = "rf_refresh") =>
                  loc'[r] = loc[r]
            /\ (pc[r] = "rf_userinfo" /\ pc'[r] = "rf_userinfo") =>
                  loc'[r] = loc[r]]_vars
    /\ [][now' # now => pc' = pc /\ loc' = loc]_vars

\* a refresh has succeeded whose session the sweep had removed while the
\* handler was waiting, and the session is in the store again
C30_Witness ==
    /\ resp.op = "auth_refresh"
    /\ resp.success
    /\ resp.reinserted
    /\ SessionStoreHas(Store, resp.cookie)
    /\ SessionStoreGet(Store, resp.cookie).accessToken = 2

----------------------------------------------------------------------------
(* The pendingAuth sweep over time *)

\* the time of the latest run of the pendingAuth timer (the first run is one
\* period after start-up)
LastPendingSweepSec ==
    T0 + ((now - T0) \div PendingSweepPeriodSec) * PendingSweepPeriodSec

\* the age of a pending authorization above which none is left: the TTL
\* plus one sweep period
PendingMaxStayMs == PendingMaxAgeMs + PendingSweepPeriodSec * 1000

\* the pending authorization of attempt a left the store without a callback
\* having consumed it
SweptUnconsumed(a) ==
    /\ a \in usedAuth
    /\ ~Has(pendingAuth, a)
    /\ Count(codeCalls, a) = 0

----------------------------------------------------------------------------
(* PKCE helpers of server-enhanced-cors.ts: generateCodeVerifier and         *)
(* isValidCodeVerifier.  Strings are sequences of one-character strings,     *)
(* buffers are sequences of bytes.                                          *)

MaxVerifierLen == 130     \* lengths 0..MaxVerifierLen are requested

\* byte values the random source hands out: they encode to letters, digits,
\* "+" and "/"
PkceBytes == {0, 105, 251, 255}

\* crypto.randomBytes(length): the bytes drawn, here three values repeated
RandomBytes(length, triple) ==
    [i \in 1..length |-> triple[((i - 1) % 3) + 1]]

Base64Alphabet ==
    << "A", "B", "C", "D", "E", "F", "G", "H", "I", "J", "K", "L", "M",
       "N", "O", "P", "Q", "R", "S", "T", "U", "V", "W", "X", "Y", "Z",
       "a", "b", "c", "d", "e", "f", "g", "h", "i", "j", "k", "l", "m",
       "n", "o", "p", "q", "r", "s", "t", "u", "v", "w", "x", "y", "z",
       "0", "1", "2", "3", "4", "5", "6", "7", "8", "9", "+", "/" >>

\* buffer.toString("base64"): three bytes give four characters, the rest is
\* padded with "="
RECURSIVE Base64(_)
Base64(buffer) ==
    LET n     == Len(buffer)
        ch(i) == Base64Alphabet[i + 1]
        b1    == buffer[1]
        b2    == buffer[2]
        b3    == buffer[3]
    IN IF n = 0 THEN << >>
       ELSE IF n = 1
         THEN << ch(b1 \div 4), ch((b1 % 4) * 16), "=", "=" >>
       ELSE IF n = 2
         THEN << ch(b1 \div 4), ch((b1 % 4) * 16 + b2 \div 16),
                 ch((b2 % 16) * 4), "=" >>
       ELSE << ch(b1 \div 4), ch((b1 % 4) * 16 + b2 \div 16),
               ch((b2 % 16) * 4 + b3 \div 64), ch(b3 % 64) >>
            \o Base64(SubSeq(buffer, 4, n))

\* base64UrlEncode: "+" becomes "-", "/" becomes "_", "=" is removed
Base64UrlEncode(buffer) ==
    LET replace(s, from, to) ==
            [i \in 1..Len(s) |-> IF s[i] = from THEN to ELSE s[i]]
        notPad(c) == c # "="
    IN SelectSeq(replace(replace(Base64(buffer), "+", "-"), "/", "_"),
                 notPad)

\* generateCodeVerifier(length): the string returned, or the error thrown
GenerateCodeVerifier(length, triple) ==
    LET \* String.prototype.substring(0, end)
        substring0(s, end) ==
            SubSeq(s, 1, IF end < Len(s) THEN end ELSE Len(s))
    IN IF length < 43 \/ length > 128
         THEN [threw |-> TRUE, verifier |-> << >>,
               error |-> "Code verifier length must be between 43 and 128 characters"]
         ELSE [threw |-> FALSE, error |-> "",
               verifier |->
                  substring0(Base64UrlEncode(RandomBytes(length, triple)),
                             length)]

\* the characters of /^[A-Za-z0-9\-._~]+$/
UnreservedChars ==
    ({Base64Alphabet[i] : i \in 1..64} \ {"+", "/"}) \cup {"-", ".", "_", "~"}

\* mutant: the underscore is left out of the pattern
IsValidCodeVerifier_NoUnderscore(verifier) ==
    /\ ~(Len(verifier) < 43 \/ Len(verifier) > 128)
    /\ \A i \in 1..Len(verifier) : verifier[i] \in UnreservedChars \ {"_"}

\* isValidCodeVerifier(verifier)
IsValidCodeVerifier(verifier) ==
    /\ ~(Len(verifier) < 43 \/ Len(verifier) > 128)
    /\ Len(verifier) >= 1
    /\ \A i \in 1..Len(verifier) : verifier[i] \in UnreservedChars

\* generateCodeVerifier(length) is called and its result given to
\* isValidCodeVerifier
CallGenerateCodeVerifier ==
    /\ resp.op = "verifier_input"
    /\ LET result == GenerateCodeVerifier(resp.length, resp.bytes)
       IN resp' = FullReply([op |-> "verifier", length |-> resp.length,
                             bytes |-> resp.bytes, result |-> result,
                             accepted |-> /\ ~result.threw
                                          /\ IsValidCodeVerifier(
                                                 result.verifier)])
    /\ UNCHANGED << now, pc, loc, sessions, sidToUser, minted, usedSids,
                    upN, started, jwtVars, codeVars, jar >>

\* a verifier is about to be requested: the length asked for and the bytes
\* the random source will hand out
InitPkce ==
    /\ \E length \in 0..MaxVerifierLen,
          triple \in PkceBytes \X PkceBytes \X PkceBytes :
          resp = [f \in DOMAIN NoResp \cup {"length", "bytes"} |->
                    IF f = "op" THEN "verifier_input"
                    ELSE IF f = "length" THEN length
                    ELSE IF f = "bytes" THEN triple
                    ELSE NoResp[f]]
    /\ now = T0
    /\ pc = [r \in Reqs |-> "idle"]
    /\ loc = [r \in Reqs |-> NoLoc]
    /\ sessions = EmptyMap
    /\ sidToUser = EmptyMap
    /\ tokenCache = EmptyMap
    /\ minted = 0
    /\ usedSids = {}
    /\ upN = 0
    /\ started = 0
    /\ pendingAuth = EmptyMap
    /\ usedAuth = {}
    /\ codeCalls = EmptyMap
    /\ codeSess = EmptyMap
    /\ jar = NoJar

NextPkce == CallGenerateCodeVerifier

SpecPkce == InitPkce /\ [][NextPkce]_vars

\* C32: for every requested length in 43..128 generateCodeVerifier returns
\* a string of exactly that length which isValidCodeVerifier accepts; for
\* every length below 43 or above 128 it fails with the invalid-length error
\* and returns no verifier.
C32_VerifierLengthAndValidity ==
    resp.op = "verifier" =>
       IF resp.length \in 43..128
         THEN /\ ~resp.result.threw
              /\ Len(resp.result.verifier) = resp.length
              /\ resp.accepted
         ELSE /\ resp.result.threw
              /\ resp.result.error # ""
              /\ resp.result.verifier = << >>

\* a verifier of the smallest length was returned that holds both characters
\* the encoding replaces
C32_Witness ==
    /\ resp.op = "verifier"
    /\ resp.length = 43
    /\ resp.accepted
    /\ \E i, j \in 1..43 :
          resp.result.verifier[i] = "-" /\ resp.result.verifier[j] = "_"

----------------------------------------------------------------------------
\* a login of the JWT flow ends with the success reply in this step
LoginSucceeds(r) ==
    pc[r] # "idle" /\ Replies(r) /\ resp'.op = "login" /\ resp'.status = 200

\* a login of the JWT flow ends with a failure reply in this step, at once
\* (missing assertion) or after an await
LoginFails(r) ==
    /\ resp'.op = "login" /\ resp'.status # 200
    /\ \/ Replies(r)
       \/ FreeSlot(r) /\ started' = started + 1 /\ pc' = pc

\* C33: a login that reports success has stored a session under the
\* session identifier it returns, so that a session check sent next with
\* that identifier reports authenticated with the same user; a login that
\* reports failure (missing assertion, invalid assertion, failed exchange)
\* leaves the session store unchanged.
C33_LoginSuccessMeansSession ==
    [][\A r \in Reqs :
         /\ LoginSucceeds(r) =>
               /\ SessionStoreHas(Store', JwtKey(resp'.sessionId))
               /\ UserOf(SessionStoreGet(Store', JwtKey(resp'.sessionId)))
                    = resp'.user
         /\ LoginFails(r) => sessions' = sessions /\ sidToUser' = sidToUser
         /\ (/\ AllIdle
             /\ resp.op = "login" /\ resp.status = 200
             /\ SessionCheckReceived(r)
             /\ SessionCheckCookie(r) = resp.sessionId
             /\ pc' = pc) =>
               /\ resp'.authenticated
               /\ resp'.user = resp.user]_vars

----------------------------------------------------------------------------
\* a refresh of a JWT-flow session, asked for by POST /jwt-auth/refresh or
\* started by a session check, ends in slot r with success in this step
JwtRefreshSucceeds(r) ==
    /\ pc[r] \in {"refresh_await", "session_refresh"}
    /\ Replies(r)
    /\ resp'.status = 200

\* the fields of a JWT session a refresh may change
RefreshedFields ==
    {"commerceAccessToken", "commerceTokenExpiry", "commerceRefreshToken",
     "lastAccessed"}

\* C34: a successful refresh of a JWT-flow session changes only
\* commerceAccessToken, commerceTokenExpiry, commerceRefreshToken and
\* lastAccessed: userId, email, name, uid, originalJWT and createdAt are
\* those of the session the handler read, and of the session in the store
\* where it is still there; when the refresh response carries no refresh
\* token the session keeps its previous refresh token.
C34_RefreshFrame ==
    [][\A r \in Reqs :
         JwtRefreshSucceeds(r) =>
            LET key     == JwtKey(loc[r].cookie)
                session == loc[r].session
                updated == SessionStoreGet(Store', key)
            IN /\ SessionStoreHas(Store', key)
               /\ DOMAIN updated = DOMAIN session
               /\ \A f \in DOMAIN session \ RefreshedFields :
                     /\ updated[f] = session[f]
                     /\ SessionStoreHas(Store, key) =>
                           updated[f] = SessionStoreGet(Store, key)[f]
               /\ {"userId", "email", "name", "uid", "originalJWT",
                   "createdAt"} \subseteq DOMAIN session \ RefreshedFields
               /\ updated.commerceAccessToken = minted'
               /\ updated.commerceAccessToken # session.commerceAccessToken
               /\ updated.lastAccessed = NowMs
               /\ updated.commerceRefreshToken
                    \in {minted', session.commerceRefreshToken}
               /\ updated.commerceRefreshToken # None]_vars

\* a refresh whose response carried no refresh token has succeeded: the
\* session holds the new access token and the refresh token it had before
C34_Witness ==
    /\ resp.op = "refresh" /\ resp.success
    /\ SessionStoreHas(Store, JwtKey(resp.cookie))
    /\ SessionStoreGet(Store, JwtKey(resp.cookie)).commerceAccessToken = 2
    /\ SessionStoreGet(Store, JwtKey(resp.cookie)).commerceRefreshToken = 1

----------------------------------------------------------------------------
\* C35: after any sequence of SessionStore operations (set, update, delete,
\* deleteAllForUser, cleanExpired, clear) the session-to-user index is
\* consistent with the sessions map: every session id in sessionIdToUserId
\* is a key of sessions, and the user id recorded for it equals the
\* userInfo.sub of the stored session.
C35_IndexConsistent ==
    \A id \in DOMAIN sidToUser :
       /\ SessionStoreHas(Store, id)
       /\ "userInfo" \in DOMAIN SessionStoreGet(Store, id)
       /\ sidToUser[id] = SessionStoreGet(Store, id).userInfo.sub

----------------------------------------------------------------------------
(* createAuthHook: the preHandler of the routes protected by the            *)
(* authorization-code session (cookie session_id)                           *)

\* the hook looks the cookie's value up as it is; a record without
\* expiresAt compares as now >= undefined, which is false
AuthHook(r, cookie) ==
    /\ Receive(r)
    /\ IF cookie = NoCookie
         THEN /\ Reply(r, [op |-> "auth_hook", status |-> 401,
                           error |-> "unauthorized", cookie |-> cookie])
              /\ UNCHANGED << sessions, sidToUser >>
       ELSE IF ~SessionStoreHas(Store, cookie)
         THEN /\ Reply(r, [op |-> "auth_hook", status |-> 401,
                           error |-> "invalid_session", cookie |-> cookie])
              /\ UNCHANGED << sessions, sidToUser >>
       ELSE LET session == SessionStoreGet(Store, cookie)
            IN IF /\ "expiresAt" \in DOMAIN session
                  /\ NowMs >= session.expiresAt
                 THEN /\ SetStore(SessionStoreDelete(Store, cookie))
                      /\ Reply(r, [op |-> "auth_hook", status |-> 401,
                                   error |-> "session_expired",
                                   cookie |-> cookie])
                 ELSE \* request.session = session; the handler runs
                      /\ Reply(r, [op |-> "auth_hook", status |-> 200,
                                   cookie |-> cookie, session |-> session])
                      /\ UNCHANGED << sessions, sidToUser >>
    /\ UNCHANGED << now, minted, usedSids, upN, jwtVars, codeVars, jar >>

\* the two login flows with the routes that take a session cookie
NextGuards ==
    \/ \E r \in Reqs, j \in LoginJwts \cup {NoJwt} : LoginStart(r, j)
    \/ \E r \in Reqs : LoginValidated(r)
    \/ \E r \in Reqs : LoginExchanged(r)
    \/ \E r \in Reqs : AuthLogin(r)
    \/ \E r \in Reqs, code \in Codes, state \in QueryStates,
          error \in QueryErrors, authId \in AuthCookies :
          AuthCallback(r, code, state, error, authId)
    \/ \E r \in Reqs : AuthCallbackExchanged(r)
    \/ \E r \in Reqs : AuthCallbackUserInfo(r)
    \/ \E r \in Reqs, cookie \in SessionIdCookies : AuthHook(r, cookie)
    \/ \E r \in Reqs, cookie \in SessionIdCookies : AuthRefresh(r, cookie)
    \/ \E r \in Reqs : AuthRefreshAnswered(r)
    \/ \E r \in Reqs : AuthRefreshUserInfo(r)
    \/ \E r \in Reqs, c \in SessionIdCookies : JwtMiddleware(r, c)
    \/ \E r \in Reqs, c \in SessionIdCookies : CheckSession(r, c)
    \/ \E r \in Reqs : CheckSessionRefreshed(r)
    \/ Tick

SpecGuards == Init /\ [][NextGuards]_vars

\* the auth hook answers a request with cookie c in this step
AuthHookStep(c) ==
    /\ started' = started + 1 /\ pc' = pc
    /\ resp'.op = "auth_hook" /\ resp'.cookie = c

\* C36: a protected route handler runs with a session attached only if that
\* session is in the store and unexpired at the time of the check: the JWT
\* middleware attaches a session only when commerceTokenExpiry >= now + 60 s,
\* the code-flow auth hook only when now < expiresAt; in every other case
\* the request is answered 401 and the handler does not run.
C36_HandlerRunsOnlyUnexpired ==
    [][\A c \in SessionIdCookies :
         /\ ProtectedStep(c) =>
               IF resp'.status = 200
                 THEN /\ SessionStoreHas(Store, JwtKey(c))
                      /\ SessionStoreGet(Store, JwtKey(c)).commerceTokenExpiry
                           >= NowMs + 60000
                 ELSE resp'.status = 401
         /\ AuthHookStep(c) =>
               IF resp'.status = 200
                 THEN /\ SessionStoreHas(Store, c)
                      /\ resp'.session = SessionStoreGet(Store, c)
                      /\ "expiresAt" \in DOMAIN resp'.session
                      /\ NowMs < resp'.session.expiresAt
                 ELSE resp'.status = 401]_vars

----------------------------------------------------------------------------
\* a handler of the authorization-code flow (the auth hook or
\* POST /auth/refresh) receives a request with session_id cookie c in this
\* step and looks c up in the store
CodeHandlerLooksUp(r, c) ==
    /\ FreeSlot(r) /\ started' = started + 1
    /\ c # NoCookie
    /\ \/ pc' = pc /\ resp'.op \in {"auth_hook", "auth_refresh"}
                   /\ resp'.cookie = c
       \/ pc'[r] = "rf_refresh" /\ loc'[r].cookie = c

\* a handler of the JWT flow (session check or middleware) receives a
\* request with jwt_session_id cookie c in this step and looks jwt_c up
JwtHandlerLooksUp(r, c) ==
    /\ FreeSlot(r) /\ started' = started + 1
    /\ c # NoCookie
    /\ \/ pc' = pc /\ resp'.op \in {"session", "protected"}
                   /\ resp'.cookie = c
       \/ pc'[r] = "session_refresh" /\ loc'[r].cookie = c

\* C37: the two flows are isolated for every client-chosen cookie value:
\* the code-flow handlers (auth hook, POST /auth/refresh), given any
\* session_id cookie, never read or accept a session record created by the
\* JWT flow, and the JWT-flow handlers, given any jwt_session_id cookie,
\* never read or accept a session created by the code flow.
C37_FlowsIsolatedForAnyCookie ==
    [][\A r \in Reqs, c \in CookieVals :
         /\ CodeHandlerLooksUp(r, c) =>
               /\ SessionStoreHas(Store, c) =>
                     ~IsJwtRecord(SessionStoreGet(Store, c))
               /\ (resp'.op = "auth_hook" /\ resp'.status = 200) =>
                     ~IsJwtRecord(resp'.session)
         /\ (JwtHandlerLooksUp(r, c) /\ SessionStoreHas(Store, JwtKey(c))) =>
               IsJwtRecord(SessionStoreGet(Store, JwtKey(c)))]_vars

----------------------------------------------------------------------------
\* GET /auth/callback is received by slot r in this step
CallbackReceived(r) ==
    /\ FreeSlot(r) /\ started' = started + 1
    /\ \/ pc' = pc /\ resp'.op = "auth_callback"
       \/ pc'[r] = "cb_exchange"

\* the request of that callback
ReceivedCallbackReq(r) == IF pc' = pc THEN resp'.req ELSE loc'[r].req

\* that callback is rejected for a state mismatch, a missing code or a
\* missing state
RejectedBeforeConsumption(r) ==
    /\ CallbackReceived(r) /\ pc' = pc
    /\ \/ resp'.error = "invalid_state"
       \/ resp'.message \in {"Missing authorization code",
                             "Missing state parameter"}

\* C38: a callback rejected for a state mismatch, a missing code or a
\* missing state leaves the pendingAuth store unchanged: the entry of that
\* attempt stays with the same verifier and state, and a later callback
\* with the correct state for the same attempt goes on to the token
\* exchange as long as the entry has not been swept.
C38_RejectedCallbackKeepsPending ==
    [][\A r \in Reqs :
         /\ RejectedBeforeConsumption(r) =>
               /\ pendingAuth' = pendingAuth
               /\ resp'.status = 400
               /\ sessions' = sessions
         /\ (/\ CallbackReceived(r)
             /\ ReceivedCallbackReq(r).error = ""
             /\ ReceivedCallbackReq(r).code # None
             /\ ReceivedCallbackReq(r).authId # None
             /\ Has(pendingAuth, ReceivedCallbackReq(r).authId)
             /\ ReceivedCallbackReq(r).state
                  = pendingAuth[ReceivedCallbackReq(r).authId].state) =>
               /\ pc'[r] = "cb_exchange"
               /\ loc'[r].codeVerifier
                    = pendingAuth[ReceivedCallbackReq(r).authId].codeVerifier]_vars

\* the last reply rejected a callback of an attempt for a state mismatch,
\* and a later callback of the same attempt has passed the state check
C38_Witness ==
    /\ resp.op = "auth_callback" /\ resp.error = "invalid_state"
    /\ resp.req.authId # None
    /\ \E r \in Reqs :
          /\ pc[r] = "cb_exchange"
          /\ loc[r].req.authId = resp.req.authId

----------------------------------------------------------------------------
\* the callback in slot r ends in this step because the token exchange or
\* the user-info request failed
CallbackFailsUpstream(r) ==
    /\ pc[r] \in {"cb_exchange", "cb_userinfo"}
    /\ Replies(r)
    /\ ~resp'.success

\* C39: when the code-for-token exchange or the user-info request fails
\* after the callback has matched the state, no session is created and no
\* session cookie is set, the callback ends in the failure redirect, and
\* the consumed pending authorization is not restored, so the same attempt
\* cannot be used for another callback.
C39_UpstreamFailureLeavesNothing ==
    [][/\ \A r \in Reqs :
            /\ CallbackFailsUpstream(r) =>
                  /\ sessions' = sessions /\ sidToUser' = sidToUser
                  /\ codeSess' = codeSess
                  /\ "sessionId" \notin DOMAIN resp'
                  /\ resp'.status = 302 /\ resp'.error = "callback_failed"
                  /\ ~Has(pendingAuth', loc[r].req.authId)
            /\ (/\ CallbackReceived(r)
                /\ ReceivedCallbackReq(r).authId \in usedAuth
                /\ ~Has(pendingAuth, ReceivedCallbackReq(r).authId)) =>
                  pc' = pc /\ resp'.status \in {302, 400} /\ ~resp'.success
       /\ \A a \in usedAuth : ~Has(pendingAuth, a) => ~Has(pendingAuth', a)]_vars

\* the one exchange of an attempt has failed without a session, and a later
\* callback of that attempt with the right state was turned away
C39_Witness ==
    /\ AllIdle
    /\ resp.op = "auth_callback"
    /\ resp.message = "Invalid or expired auth session"
    /\ resp.req.authId \in usedAuth
    /\ resp.req.state = resp.req.authId
    /\ Count(codeCalls, resp.req.authId) = 1
    /\ Count(codeSess, resp.req.authId) = 0
    /\ sessions = EmptyMap

====
